---------------------------- MODULE Spec2Model ----------------------------
(***************************************************************************)
(* Model of the time/frame "truth contracts" module of blackroad-metaverse *)
(* (src/truth-contracts.js) and of CelestialContract (src/unnamed/part_002)*)
(*                                                                         *)
(* A JavaScript Date is a whole number of milliseconds since 1970-01-01    *)
(* UTC.  Those numbers (about 1.5e12 today) do not fit the model checker's *)
(* integers, so a Date is the pair [d, ms]: d whole days since the epoch   *)
(* and 0 <= ms < 86400000 milliseconds into that day.  The pair denotes    *)
(* the instant d * 86400000 + ms, and all arithmetic below is exact in it. *)
(***************************************************************************)
EXTENDS Integers, Sequences, FiniteSets, TLC

\* ------------------------------------------------------------------ bounds

\* Days sampled on each side of every leap-second table entry.
DayWindow == 1

\* Number of test ids known to the ContractedVerifier.
MaxTests == 2

\* Camera positions: up to this many chunks from the origin on each axis.
MaxCamChunk == 1

\* The day/night cycle is followed while its time is within this many days of
\* the 0-1 range.
MaxCycleDays == 2

\* Creatures are spawned by direct calls while the CreatureManager holds fewer
\* than this many.
MaxHeld == 51

\* Lightning lights or impact flashes of one kind that are in the scene or
\* wait for their timer at once.
MaxBolts == 1

\* Sounds that the sound system has started, and shockwave timers that wait,
\* at once
MaxSounds == 2

\* ------------------------------------------------------------- enumerations

TIME_SCALES == {"UTC", "TAI", "TT", "TDB", "UT1", "GPS"}

FRAMES ==
    {"ICRF_BARYCENTRIC", "HELIOCENTRIC_ECLIPTIC", "ECI", "ECEF", "TOPOCENTRIC",
     "MOON_CENTERED"}

HEIGHT_DATUMS == {"ELLIPSOID", "GEOID", "MSL"}

ORIGINS ==
    {"BARYCENTRIC", "HELIOCENTRIC", "GEOCENTRIC", "TOPOCENTRIC", "SELENOCENTRIC"}

\* ------------------------------------------------------------------- dates

MsPerDay == 86400000

MkDate(d, ms) == [d |-> d, ms |-> ms]

\* The Date of the epoch plus k milliseconds, |k| < 2^31.
EpochPlus(k) == [d |-> k \div MsPerDay, ms |-> k % MsPerDay]

\* new Date(t.getTime() + k) for a whole number k of milliseconds.
AddMs(t, k) ==
    [d |-> t.d + ((t.ms + k) \div MsPerDay), ms |-> (t.ms + k) % MsPerDay]

\* a >= b on Dates (JavaScript compares their millisecond values).
DateGE(a, b) == a.d > b.d \/ (a.d = b.d /\ a.ms >= b.ms)

\* a.getTime() - b.getTime(), for Dates less than 24 days apart.
DiffMs(a, b) == (a.d - b.d) * MsPerDay + (a.ms - b.ms)

\* ------------------------------------------------------- leap-second table

LEAP_SECONDS ==
    << [date |-> MkDate(730, 0),   leapSeconds |-> 10],  \* 1972-01-01
       [date |-> MkDate(912, 0),   leapSeconds |-> 11],  \* 1972-07-01
       [date |-> MkDate(1096, 0),  leapSeconds |-> 12],  \* 1973-01-01
       [date |-> MkDate(1461, 0),  leapSeconds |-> 13],  \* 1974-01-01
       [date |-> MkDate(1826, 0),  leapSeconds |-> 14],  \* 1975-01-01
       [date |-> MkDate(2191, 0),  leapSeconds |-> 15],  \* 1976-01-01
       [date |-> MkDate(2557, 0),  leapSeconds |-> 16],  \* 1977-01-01
       [date |-> MkDate(2922, 0),  leapSeconds |-> 17],  \* 1978-01-01
       [date |-> MkDate(3287, 0),  leapSeconds |-> 18],  \* 1979-01-01
       [date |-> MkDate(3652, 0),  leapSeconds |-> 19],  \* 1980-01-01
       [date |-> MkDate(4199, 0),  leapSeconds |-> 20],  \* 1981-07-01
       [date |-> MkDate(4564, 0),  leapSeconds |-> 21],  \* 1982-07-01
       [date |-> MkDate(4929, 0),  leapSeconds |-> 22],  \* 1983-07-01
       [date |-> MkDate(5660, 0),  leapSeconds |-> 23],  \* 1985-07-01
       [date |-> MkDate(6574, 0),  leapSeconds |-> 24],  \* 1988-01-01
       [date |-> MkDate(7305, 0),  leapSeconds |-> 25],  \* 1990-01-01
       [date |-> MkDate(7670, 0),  leapSeconds |-> 26],  \* 1991-01-01
       [date |-> MkDate(8217, 0),  leapSeconds |-> 27],  \* 1992-07-01
       [date |-> MkDate(8582, 0),  leapSeconds |-> 28],  \* 1993-07-01
       [date |-> MkDate(8947, 0),  leapSeconds |-> 29],  \* 1994-07-01
       [date |-> MkDate(9496, 0),  leapSeconds |-> 30],  \* 1996-01-01
       [date |-> MkDate(10043, 0), leapSeconds |-> 31],  \* 1997-07-01
       [date |-> MkDate(10592, 0), leapSeconds |-> 32],  \* 1999-01-01
       [date |-> MkDate(13149, 0), leapSeconds |-> 33],  \* 2006-01-01
       [date |-> MkDate(14245, 0), leapSeconds |-> 34],  \* 2009-01-01
       [date |-> MkDate(15522, 0), leapSeconds |-> 35],  \* 2012-07-01
       [date |-> MkDate(16617, 0), leapSeconds |-> 36],  \* 2015-07-01
       [date |-> MkDate(17167, 0), leapSeconds |-> 37]   \* 2017-01-01
    >>

\* "Pre-1972 default" of getLeapSeconds.
PreTableLeapSeconds == 10

\* EOP_DATA.dut1 = -0.1234 s, in tenths of a millisecond.
DUT1TenthMs == -1234

\* EOP_DATA: dut1 in tenths of a millisecond, xp and yp (arcseconds) in
\* millionths of an arcsecond.
EOP_DATA == [dut1 |-> DUT1TenthMs, xp |-> 123456, yp |-> 234567]

\* The module-level objects as they are held in memory: the LEAP_SECONDS array
\* and the EOP_DATA object are exported and mutable, and the TimeConverter
\* reads them at each call.
VARIABLES
    leapTable,  \* LEAP_SECONDS as it stands in memory
    eopData     \* EOP_DATA as it stands in memory

tables == <<leapTable, eopData>>

\* ------------------------------------------------------------ TimeConverter

\* The for-of loop of getLeapSeconds from entry i on, leapSeconds = acc so far:
\* an entry whose date is <= utcDate overwrites acc, the first later entry
\* breaks out of the loop.
RECURSIVE ScanGT(_, _, _)
ScanGT(utcDate, i, acc) ==
    IF i > Len(leapTable) THEN acc
    ELSE IF ~DateGE(leapTable[i].date, utcDate)
         THEN ScanGT(utcDate, i + 1, leapTable[i].leapSeconds)
         ELSE acc

RECURSIVE Scan(_, _, _)
Scan(utcDate, i, acc) ==
    IF i > Len(leapTable) THEN acc
    ELSE IF DateGE(utcDate, leapTable[i].date)
         THEN Scan(utcDate, i + 1, leapTable[i].leapSeconds)
         ELSE acc

\* getLeapSeconds with "utcDate > entry.date" in place of ">=".
getLeapSecondsStrict(utcDate) == ScanGT(utcDate, 1, PreTableLeapSeconds)

getLeapSeconds(utcDate) == Scan(utcDate, 1, PreTableLeapSeconds)

\* utcToTAI adding the leap seconds as milliseconds instead of seconds.
utcToTAIUnscaled(utcDate) == AddMs(utcDate, getLeapSeconds(utcDate))

utcToTAI(utcDate) == AddMs(utcDate, getLeapSeconds(utcDate) * 1000)

(***************************************************************************)
(* new Date(t.getTime() + 32.184 * 1000).  In IEEE-754 doubles the product *)
(* 32.184 * 1000 is 32183.999999999996 = 32184 - 2^-38, not 32184.  The    *)
(* sum n - 2^-38 (n = t.getTime() + 32184) is representable when           *)
(* |n| <= 32768 and rounds to n (ties-to-even) beyond; the Date            *)
(* constructor then truncates toward zero.  So the result is n - 1 for     *)
(* 1 <= n <= 32768 and n otherwise.                                        *)
(***************************************************************************)
TTOffsetMs == 32184

PlusTTOffset(t) ==
    LET n == AddMs(t, TTOffsetMs)
    IN  IF DateGE(n, EpochPlus(1)) /\ DateGE(EpochPlus(32768), n)
        THEN AddMs(n, -1)
        ELSE n

(***************************************************************************)
(* new Date(t.getTime() - 32.184 * 1000): the difference is m + 2^-38 with *)
(* m = t.getTime() - 32184; truncation toward zero gives m + 1 for         *)
(* -32768 <= m <= -1 and m otherwise.                                      *)
(***************************************************************************)
MinusTTOffset(t) ==
    LET m == AddMs(t, -TTOffsetMs)
    IN  IF DateGE(m, EpochPlus(-32768)) /\ DateGE(EpochPlus(-1), m)
        THEN AddMs(m, 1)
        ELSE m

utcToTT(utcDate) == PlusTTOffset(utcToTAI(utcDate))

(***************************************************************************)
(* new Date(t.getTime() + num/den) for a fraction num/den of a millisecond *)
(* that is not a whole number: the Date constructor truncates the sum      *)
(* toward zero, so the result is t + floor(num/den) when the sum is        *)
(* positive and t + ceil(num/den) when it is negative.                     *)
(***************************************************************************)
AddFraction(t, num, den) ==
    LET lo == num \div den
        hi == -((-num) \div den)
    IN  IF DateGE(AddMs(t, lo), EpochPlus(0)) THEN AddMs(t, lo) ELSE AddMs(t, hi)

utcToUT1(utcDate) == AddFraction(utcDate, eopData.dut1, 10)

(***************************************************************************)
(* dateToJulianDate: date.getTime() / 86400000 + 2440587.5, kept in fixed  *)
(* point as whole days and millionths of a day.                            *)
(***************************************************************************)
dateToJulianDate(date) ==
    LET micro == 500000 + (date.ms * 10) \div 864
    IN  [day |-> date.d + 2440587 + (micro \div 1000000), micro |-> micro % 1000000]

(***************************************************************************)
(* Math.sin in fixed point: 1000 * sin of an angle given in millidegrees   *)
(* (Bhaskara's rational approximation on each half turn, error < 0.002).   *)
(***************************************************************************)
HalfSin1000(a) ==
    LET x == a \div 100
        p == x * (1800 - x)
    IN  (400 * p) \div ((4050000 - p) \div 10)

Sin1000(mdeg) ==
    LET a == mdeg % 360000
    IN  IF a <= 180000 THEN HalfSin1000(a) ELSE -HalfSin1000(a - 180000)

Cos1000(mdeg) == Sin1000(mdeg + 90000)

(***************************************************************************)
(* utcToTDB: g = 357.5277233 + 35999.05034 * T degrees with                *)
(* T = (jd - 2451545.0) / 36525, i.e. 0.98560028 degrees per day;          *)
(* deltaT * 1000 = 1.658 sin g + 0.014 sin 2g milliseconds, added to TT    *)
(* and truncated by the Date constructor.  Angles are millidegrees, the    *)
(* periodic term is in thousandths of a millisecond.                       *)
(***************************************************************************)
MeanAnomalyMdeg(jd) ==
    LET n == jd.day - 2451545
    IN  (357528 + 985 * n + (6003 * n) \div 10000
         + ((jd.micro \div 1000) * 986) \div 1000) % 360000

utcToTDB(utcDate) ==
    LET tt == utcToTT(utcDate)
        g == MeanAnomalyMdeg(dateToJulianDate(tt))
        deltaT == (1658 * Sin1000(g) + 14 * Sin1000(2 * g)) \div 1000
    IN  IF deltaT % 1000 = 0
        THEN AddMs(tt, deltaT \div 1000)
        ELSE AddFraction(tt, deltaT, 1000)

(***************************************************************************)
(* convert(timestamp, fromScale, toScale).  A call either returns a Date   *)
(* or throws; the outcome is [threw, value].                               *)
(***************************************************************************)
NoDate == [d |-> 0, ms |-> -1]

Returns(v) == [threw |-> FALSE, value |-> v]

Throws == [threw |-> TRUE, value |-> NoDate]

\* The "convert to UTC first" step: only TAI and TT are recognised.
ToUTCFirst(timestamp, fromScale) ==
    IF fromScale = "TAI"
    THEN AddMs(timestamp, -(getLeapSeconds(timestamp) * 1000))
    ELSE IF fromScale = "TT"
         THEN LET tai == MinusTTOffset(timestamp)
              IN  AddMs(tai, -(getLeapSeconds(tai) * 1000))
         ELSE timestamp

\* The switch on toScale with the TDB case missing.
FromUTCWithoutTDB(utc, toScale) ==
    CASE toScale = "UTC" -> Returns(utc)
      [] toScale = "TAI" -> Returns(utcToTAI(utc))
      [] toScale = "TT"  -> Returns(utcToTT(utc))
      [] toScale = "UT1" -> Returns(utcToUT1(utc))
      [] OTHER -> Throws

\* The switch on toScale.
FromUTC(utc, toScale) ==
    CASE toScale = "UTC" -> Returns(utc)
      [] toScale = "TAI" -> Returns(utcToTAI(utc))
      [] toScale = "TT"  -> Returns(utcToTT(utc))
      [] toScale = "TDB" -> Returns(utcToTDB(utc))
      [] toScale = "UT1" -> Returns(utcToUT1(utc))
      [] OTHER -> Throws

\* convert without the early return for fromScale === toScale.
convertNoShortcut(timestamp, fromScale, toScale) ==
    FromUTC(ToUTCFirst(timestamp, fromScale), toScale)

convert(timestamp, fromScale, toScale) ==
    IF fromScale = toScale
    THEN Returns(timestamp)
    ELSE FromUTC(ToUTCFirst(timestamp, fromScale), toScale)

\* ------------------------------------------------ TruthContract and friends

\* A property the config object does not have reads as undefined.
Undefined == "<undefined>"

Null == "<null>"

\* JavaScript truthiness of a string-or-undefined-or-null value.
Truthy(v) == v \notin {Undefined, Null, ""}

\* config.tolerance || {} : the empty tolerance map.
EmptyTolerance == "{}"

NoContract ==
    [frame |-> "-", timeScale |-> "-", heightDatum |-> "-", tolerance |-> "-",
     origin |-> "-"]

Made(obj) == [threw |-> FALSE, obj |-> obj]

Rejected == [threw |-> TRUE, obj |-> NoContract]

\* new TruthContract(config): the fields are assigned, then validated.
TruthContract(config) ==
    LET this == [frame |-> config.frame,
                 timeScale |-> config.timeScale,
                 heightDatum |-> IF Truthy(config.heightDatum)
                                 THEN config.heightDatum ELSE Null,
                 tolerance |-> EmptyTolerance,
                 origin |-> Undefined]
    IN  IF this.frame \notin FRAMES THEN Rejected
        ELSE IF this.timeScale \notin TIME_SCALES THEN Rejected
        ELSE IF Truthy(this.heightDatum) /\ this.heightDatum \notin HEIGHT_DATUMS
             THEN Rejected
        ELSE Made(this)

\* new CelestialContract(config): super(config), then the origin check.
CelestialContract(config) ==
    LET base == TruthContract(config)
    IN  IF base.threw THEN Rejected
        ELSE IF config.origin \notin ORIGINS THEN Rejected
        ELSE Made([base.obj EXCEPT !.origin = config.origin])

\* ------------------------------------------------------------ FrameTransformer

(***************************************************************************)
(* GMST of ecefToECI in millidegrees, reduced to [0, 360):                 *)
(* 280.46061837 + 360.98564736629 * (jd - 2451545.0) degrees; whole turns  *)
(* per day drop out of the reduction.  The T^2 and T^3 terms stay below a  *)
(* tenth of a millidegree over the sampled dates and are not represented.  *)
(***************************************************************************)
GmstMdeg(jd) ==
    LET n == jd.day - 2451545
    IN  (280461 + 985 * n + (6474 * n) \div 10000
         + (jd.micro * 361) \div 1000 - (jd.micro * 14) \div 1000000) % 360000

\* ecefToECI: the rotation about z by GMST; components in thousandths.
ecefToECI(ecef, ut1Time) ==
    LET gmst == GmstMdeg(dateToJulianDate(ut1Time))
        cos == Cos1000(gmst)
        sin == Sin1000(gmst)
    IN  [x |-> cos * ecef.x + sin * ecef.y,
         y |-> (-sin) * ecef.x + cos * ecef.y,
         z |-> 1000 * ecef.z]

\* ------------------------------------------------------------- IAUTransform

(***************************************************************************)
(* A THREE.Matrix4 is kept as the product of named rotations that it is:   *)
(* the sequence of its factors, leftmost first.  A factor is a record      *)
(* [name, a, b] holding the quantities its entries were computed from.     *)
(* new THREE.Matrix4() is the identity, the empty product.                 *)
(***************************************************************************)
Identity == <<>>

\* Matrix4.premultiply(m): this = m x this.
premultiply(this, m) == m \o this

\* Matrix4.multiply(m): this = this x m.
multiply(this, m) == this \o m

\* A Vector3 is kept as the vector it was built from and the rotations that
\* have acted on it since, in the order they acted.
Vector3(v) == [of |-> v, applied |-> <<>>]

\* Vector3.applyMatrix4(m): v = m x v; of the factors of m the rightmost acts
\* on the vector first.
RECURSIVE applyMatrix4(_, _)
applyMatrix4(v, m) ==
    IF m = <<>> THEN v
    ELSE applyMatrix4([v EXCEPT !.applied = Append(@, m[Len(m)])],
                      SubSeq(m, 1, Len(m) - 1))

\* EarthRotation.earthRotationAngle, in millidegrees:
\* 2 pi ((0.7790572732640 + 1.00273781191135448 Du) mod 1), Du = jdUT1 - 2451545.
earthRotationAngle(jdUT1) ==
    LET n == jdUT1.day - 2451545
    IN  (280461 + 985 * n + (6123 * n) \div 10000
         + (jdUT1.micro * 361) \div 1000 - (jdUT1.micro * 14) \div 1000000) % 360000

\* PolarMotion.polarMotionMatrix(xp, yp): W.
polarMotionMatrix(xp, yp) == <<[name |-> "W", a |-> xp, b |-> yp]>>

\* new THREE.Matrix4().makeRotationZ(theta): R.
makeRotationZ(theta) == <<[name |-> "R", a |-> theta, b |-> 0]>>

\* PrecessionNutation.precessionMatrix(jdTT): P.
precessionMatrix(jdTT) == <<[name |-> "P", a |-> jdTT.day, b |-> jdTT.micro]>>

\* PrecessionNutation.nutationMatrix(jdTT): N.
nutationMatrix(jdTT) == <<[name |-> "N", a |-> jdTT.day, b |-> jdTT.micro]>>

\* IAUTransform.ecefToGCRF(ecef, utcTime, eopData)
ecefToGCRF(ecef, utcTime, eop) ==
    LET ut1Time == utcToUT1(utcTime)
        ttTime == utcToTT(utcTime)
        jdUT1 == dateToJulianDate(ut1Time)
        jdTT == dateToJulianDate(ttTime)
        W == polarMotionMatrix(eop.xp, eop.yp)
        era == earthRotationAngle(jdUT1)
        R == makeRotationZ(era)
        P == precessionMatrix(jdTT)
        N == nutationMatrix(jdTT)
        transform ==
            multiply(multiply(multiply(multiply(Identity, N), P), R), W)
        made == CelestialContract([frame |-> "ECI", timeScale |-> "TT",
                                   heightDatum |-> Undefined,
                                   origin |-> "GEOCENTRIC"])
    IN  [vec |-> applyMatrix4(Vector3(ecef), transform),
         frame |-> "ECI",
         origin |-> "GEOCENTRIC",
         contract |-> made.obj,
         threw |-> made.threw]

RotatingFrames == {"ECEF", "TOPOCENTRIC"}

\* Declared by validateFrameCompatibility, and never read by it.
InertialFrames == {"ICRF_BARYCENTRIC", "HELIOCENTRIC_ECLIPTIC", "ECI"}

\* validateFrameCompatibility: the set of console warnings it emits.
validateFrameCompatibility(frame1, frame2) ==
    LET isFrame1Rotating == frame1 \in RotatingFrames
        isFrame2Rotating == frame2 \in RotatingFrames
    IN  IF isFrame1Rotating # isFrame2Rotating THEN {"Frame mismatch"} ELSE {}

\* ---------------------------------------------------------- ContractedVerifier

\* compareWithTolerance deciding by the values instead of the placeholder.
compareValues(simulated, reference, tolerance) ==
    simulated.value = reference.value

compareWithTolerance(simulated, reference, tolerance) == TRUE

\* verify(testId, simulated, reference) against the contract found for testId
\* (NoContract when the Map has no such key): [threw, warnings, ret].
verify(contract, simulated, reference) ==
    IF contract = NoContract
    THEN [threw |-> TRUE, warnings |-> {}, ret |-> FALSE]
    ELSE [threw |-> FALSE,
          warnings |->
              validateFrameCompatibility(simulated.frame, reference.frame)
                  \cup (IF simulated.timeScale # reference.timeScale
                        THEN {"Time scale mismatch"} ELSE {}),
          ret |-> compareWithTolerance(simulated, reference, contract.tolerance)]

\* --------------------------------------------------- PangeaTerrainGenerator

\* this.chunkSize
chunkSize == 100

\* renderDistance of update
renderDistance == 3

Abs(n) == IF n < 0 THEN -n ELSE n

Max(a, b) == IF a >= b THEN a ELSE b

\* new PangeaTerrainGenerator(scene): no chunk in the map, none in the scene.
\* chunks is the key set of this.chunks, a key being <<chunkX, chunkZ>>; scene
\* holds the keys of the chunk groups that are children of the scene.
NewTerrain == [chunks |-> {}, scene |-> {}]

\* generateChunk(chunkX, chunkZ): a chunk already in the map is returned as it
\* is, a new one is added to the scene and to the map.
generateChunk(t, chunkX, chunkZ) ==
    IF <<chunkX, chunkZ>> \in t.chunks THEN t
    ELSE [chunks |-> t.chunks \cup {<<chunkX, chunkZ>>},
          scene |-> t.scene \cup {<<chunkX, chunkZ>>}]

\* The two nested loops of update: generateChunk(x, z) for every x and z
\* within renderDistance of the camera's chunk.  Each call adds at most its
\* own key, so the loops leave the union of what the calls add.
GenerateAround(t, chunkX, chunkZ) ==
    LET xs == (chunkX - renderDistance)..(chunkX + renderDistance)
        zs == (chunkZ - renderDistance)..(chunkZ + renderDistance)
    IN  [chunks |-> UNION {generateChunk(t, x, z).chunks : x \in xs, z \in zs},
         scene |-> UNION {generateChunk(t, x, z).scene : x \in xs, z \in zs}]

\* The dist of update's unload loop.
ChunkDist(key, chunkX, chunkZ) == Max(Abs(key[1] - chunkX), Abs(key[2] - chunkZ))

\* update that unloads only beyond renderDistance + 2.
updateUnloadingLate(t, cameraX, cameraZ) ==
    LET chunkX == cameraX \div chunkSize
        chunkZ == cameraZ \div chunkSize
        g == GenerateAround(t, chunkX, chunkZ)
        far == {key \in g.chunks : ChunkDist(key, chunkX, chunkZ) > renderDistance + 2}
    IN  [chunks |-> g.chunks \ far, scene |-> g.scene \ far]

\* update(cameraX, cameraZ); Math.floor(cameraX / chunkSize) is \div.
update(t, cameraX, cameraZ) ==
    LET chunkX == cameraX \div chunkSize
        chunkZ == cameraZ \div chunkSize
        g == GenerateAround(t, chunkX, chunkZ)
        far == {key \in g.chunks : ChunkDist(key, chunkX, chunkZ) > renderDistance + 1}
    IN  [chunks |-> g.chunks \ far, scene |-> g.scene \ far]

\* ------------------------------------------------------------- DayNightCycle

\* this.dayLength: seconds of real time per in-world day at speed 1.
dayLength == 600

(***************************************************************************)
(* this.time is a fraction of a day.  It is kept in units of 1 / dayLength *)
(* of a day, so that a whole second of delta at a whole speed is a whole   *)
(* number of units: time 1 is dayLength units, dawn (0.25) is 150.         *)
(***************************************************************************)
\* new DayNightCycle(scene): time = 0.25, speed = 1.0.
NewCycle == [time |-> dayLength \div 4, speed |-> 1]

\* DayNightCycle.update(delta), delta in seconds:
\* time += (delta / dayLength) * speed; if (time > 1) time -= 1.
DayNightUpdate(c, delta) ==
    LET advanced == c.time + delta * c.speed
    IN  [c EXCEPT !.time = IF advanced > dayLength THEN advanced - dayLength
                           ELSE advanced]

\* setTime(time)
setTime(c, time) == [c EXCEPT !.time = time]

\* setSpeed(speed)
setSpeed(c, speed) == [c EXCEPT !.speed = speed]

\* ------------------------------------------------------------- WeatherSystem

WEATHER_TYPES ==
    {"clear", "rain", "storm", "snow", "sandstorm", "volcanic_ash", "fog", "mist"}

\* The words that changeWeather looks for in biome.name, for each biome name
\* of PANGEA_BIOMES (biome.name.includes(word)).
BiomeWords ==
    [name \in {"Equatorial Rainforest", "Pangean Interior Desert",
               "Central Pangean Mountains", "Southern Polar Forests",
               "Tethys Coastal Wetlands", "Siberian Traps Volcanic Region",
               "Panthalassa - Global Ocean", "Tethys Sea",
               "Shallow Continental Seas"} |->
        CASE name = "Equatorial Rainforest" -> {"Rainforest"}
          [] name = "Pangean Interior Desert" -> {"Desert"}
          [] name = "Southern Polar Forests" -> {"Polar"}
          [] name = "Tethys Coastal Wetlands" -> {"Wetland"}
          [] name = "Siberian Traps Volcanic Region" -> {"Volcanic"}
          [] name = "Panthalassa - Global Ocean" -> {"Ocean"}
          [] name = "Tethys Sea" -> {"Sea"}
          [] name = "Shallow Continental Seas" -> {"Sea"}
          [] OTHER -> {}]

\* possibleWeather of changeWeather(biome); biome is a biome name or Undefined.
possibleWeather(biome) ==
    LET words == IF biome = Undefined THEN {} ELSE BiomeWords[biome]
    IN  {"clear"}
        \cup (IF words \cap {"Ocean", "Sea", "Wetland"} # {}
              THEN {"rain", "storm", "fog"} ELSE {})
        \cup (IF words \cap {"Polar", "Highland"} # {} THEN {"snow"} ELSE {})
        \cup (IF words \cap {"Desert", "Arid"} # {} THEN {"sandstorm"} ELSE {})
        \cup (IF "Volcanic" \in words THEN {"volcanic_ash"} ELSE {})
        \cup (IF "Rainforest" \in words THEN {"rain", "mist"} ELSE {})

\* The switch of changeWeather: the particle system shown for a weather type.
ShownFor(type) ==
    CASE type \in {"rain", "storm"} -> {"rainParticles"}
      [] type = "snow" -> {"snowParticles"}
      [] type = "sandstorm" -> {"sandParticles"}
      [] type = "volcanic_ash" -> {"ashParticles"}
      [] OTHER -> {}

\* The switch of changeWeather: the wind speed set for a weather type.
WindFor(type) ==
    CASE type = "storm" -> 15
      [] type = "rain" -> 5
      [] type = "snow" -> 3
      [] type = "sandstorm" -> 20
      [] type = "volcanic_ash" -> 8
      [] type \in {"fog", "mist"} -> 1
      [] OTHER -> 2

\* new WeatherSystem(scene, terrain): clear weather, the four particle systems
\* built and hidden.  visible is the set of particle systems whose visible
\* flag is true.
NewWeather ==
    [currentWeather |-> "clear", weatherDuration |-> 0, visible |-> {},
     windSpeed |-> 0]

\* changeWeather(biome), Math.random() having picked the weather type picked
\* (one of possibleWeather) and the duration (30 to 120 seconds): all four
\* particle systems are hidden, then the one of the new weather is shown.
changeWeather(w, picked, duration) ==
    [currentWeather |-> picked, weatherDuration |-> duration,
     visible |-> ShownFor(picked), windSpeed |-> WindFor(picked)]

\* forceWeather(type)
forceWeather(w, type) ==
    [w EXCEPT !.currentWeather = type, !.weatherDuration = 60]

\* ----------------------------------------------------------- CreatureManager

\* Object.keys(CREATURE_TYPES)
CREATURE_TYPES ==
    {"LYSTROSAURUS", "DIMETRODON", "COELOPHYSIS", "CYNOGNATHUS", "TEMNOSPONDYL",
     "PTEROSAUR", "PLESIOSAUR", "ICHTHYOSAUR"}

\* The types with aquatic: true, and the one with flying: true.
AquaticTypes == {"TEMNOSPONDYL", "PLESIOSAUR", "ICHTHYOSAUR"}

FlyingTypes == {"PTEROSAUR"}

\* this.maxCreatures
maxCreatures == 50

(***************************************************************************)
(* The creatures array is kept as the number of its creatures with         *)
(* health > 0 (alive) and with health <= 0 (dead); meshes is the number of *)
(* creature meshes that are children of the scene.  A LivingCreature is    *)
(* built with health 1.0 and adds its mesh to the scene.                   *)
(***************************************************************************)
\* new CreatureManager(scene, terrain)
NewManager == [alive |-> 0, dead |-> 0, meshes |-> 0]

\* this.creatures.length
Length(m) == m.alive + m.dead

Min(a, b) == IF a <= b THEN a ELSE b

\* spawnCreature(type, position): new LivingCreature, pushed on the array.
spawnCreature(m) == [m EXCEPT !.alive = @ + 1, !.meshes = @ + 1]

\* n calls of spawnCreature.
SpawnMany(m, n) == [m EXCEPT !.alive = @ + n, !.meshes = @ + n]

\* spawnInBiome(biome, count): found[i] tells whether findSpawnPosition found
\* a position at iteration i; the loop breaks at the first iteration that finds
\* the array at maxCreatures.
spawnInBiome(m, found) ==
    LET positions == Cardinality({i \in DOMAIN found : found[i]})
    IN  SpawnMany(m, Min(positions, Max(0, maxCreatures - Length(m))))

\* spawnRandomCreatures: whether the random type picked[i].type got a position:
\* aquatic and flying types always do, a land type only where the terrain is
\* above sea level (picked[i].y > 0).
Positioned(pick) ==
    \/ pick.type \in AquaticTypes
    \/ pick.type \in FlyingTypes
    \/ pick.y > 0

\* spawnRandomCreatures(count), picks being the count random types picked and
\* the terrain elevations found.
spawnRandomCreatures(m, picks) ==
    SpawnMany(m, Cardinality({i \in DOMAIN picks : Positioned(picks[i])}))

\* The types of the creatures spawnRandomCreatures spawned.
SpawnedTypes(picks) == {picks[i].type : i \in {j \in DOMAIN picks : Positioned(picks[j])}}

\* CreatureManager.update that removes only the creatures with health < 0.
managerUpdateBelowZero(m, picks) ==
    IF Length(m) * 2 < maxCreatures THEN spawnRandomCreatures(m, picks) ELSE m

\* CreatureManager.update(delta): every creature is updated (its health is not
\* written), the creatures with health <= 0 are destroyed (mesh removed from
\* the scene) and filtered out, and five random creatures are spawned when
\* fewer than maxCreatures * 0.5 are left.
managerUpdate(m, picks) ==
    LET kept == [alive |-> m.alive, dead |-> 0, meshes |-> m.meshes - m.dead]
    IN  IF Length(kept) * 2 < maxCreatures THEN spawnRandomCreatures(kept, picks)
        ELSE kept

\* clearAll(): every creature destroyed, the array emptied.
clearAll(m) == [alive |-> 0, dead |-> 0, meshes |-> m.meshes - Length(m)]

\* ------------------------------------------------- doubles near the tenths

(***************************************************************************)
(* transitionProgress is a JavaScript number, an IEEE-754 double, and the  *)
(* sums it takes are rounded.  The doubles that occur are within a few     *)
(* units in the last place of a whole number of tenths, and every double   *)
(* between 1/16 and 4 is a whole multiple of 2^-56.  With the unit         *)
(* u = 1 / (10 * 2^56) a number is kept exactly as the pair [tenths, err]  *)
(* that denotes tenths / 10 + err * u = (tenths * 2^56 + err) * u.  The    *)
(* doubles are spaced 10u apart from 1/16 to 1/8, 20u to 1/4, 40u to 1/2,  *)
(* 80u to 1, 160u to 2 and 320u to 4; rounding to the nearest of them,     *)
(* ties to the even one, only needs (tenths * 2^56 + err) modulo twice the *)
(* spacing, which is computed from 2^56 modulo twice the spacing.          *)
(***************************************************************************)

\* 2^56 modulo m, by squaring 2^7 three times.
Pow56Mod(m) ==
    LET p7 == 128 % m
        p14 == (p7 * p7) % m
        p28 == (p14 * p14) % m
    IN  (p28 * p28) % m

MkDouble(tenths, err) == [tenths |-> tenths, err |-> err]

DoubleZero == MkDouble(0, 0)

\* x >= n / 10 for a pair whose err is far smaller than a tenth.
DoubleGE(x, n) == x.tenths > n \/ (x.tenths = n /\ x.err >= 0)

\* The distance, in u, between the doubles around a positive number below 4.
DoubleSpacing(x) ==
    IF DoubleGE(x, 20) THEN 320
    ELSE IF DoubleGE(x, 10) THEN 160
    ELSE IF DoubleGE(x, 5) THEN 80
    ELSE IF x.tenths >= 3 THEN 40
    ELSE IF x.tenths >= 2 THEN 20
    ELSE 10

\* The double nearest to an exact number, ties to even.
RoundDouble(x) ==
    IF x = DoubleZero THEN x
    ELSE LET S == DoubleSpacing(x)
             t2 == (x.tenths * Pow56Mod(2 * S) + x.err) % (2 * S)
             t == t2 % S
         IN  IF 2 * t < S THEN MkDouble(x.tenths, x.err - t)
             ELSE IF 2 * t > S THEN MkDouble(x.tenths, x.err + S - t)
             ELSE IF t2 < S THEN MkDouble(x.tenths, x.err - t)
             ELSE MkDouble(x.tenths, x.err + S - t)

\* a + b in doubles.
DoubleAdd(a, b) == RoundDouble(MkDouble(a.tenths + b.tenths, a.err + b.err))

\* delta / this.transitionDuration for a delta of so many half seconds: the
\* double nearest to that many tenths.
ProgressStep(halfSeconds) == RoundDouble(MkDouble(halfSeconds, 0))

\* ---------------------------------------------------------- TimeTravelSystem

\* TIME_PERIODS: dominantLife.animals and whether extinction is not null.
TIME_PERIODS ==
    [EARLY_PERMIAN |->
        [animals |-> <<"pelycosaurs", "early_therapsids", "giant_insects",
                       "amphibians">>,
         extinction |-> FALSE],
     LATE_PERMIAN |->
        [animals |-> <<"dicynodonts", "gorgonopsids", "therocephalians",
                       "pareiasaurs">>,
         extinction |-> TRUE],
     EARLY_TRIASSIC |->
        [animals |-> <<"lystrosaurus", "proterosuchids", "temnospondyls",
                       "early_archosaurs">>,
         extinction |-> FALSE],
     LATE_TRIASSIC |->
        [animals |-> <<"coelophysis", "plateosaurus", "phytosaurs",
                       "aetosaurs", "early_pterosaurs">>,
         extinction |-> TRUE],
     EARLY_JURASSIC |->
        [animals |-> <<"dilophosaurus", "scutellosaurus", "megapnosaurus",
                       "ichthyosaurs", "plesiosaurs">>,
         extinction |-> FALSE]]

\* creatureMapping of updateFauna.
creatureMapping ==
    [lystrosaurus |-> "LYSTROSAURUS",
     dicynodonts |-> "LYSTROSAURUS",
     coelophysis |-> "COELOPHYSIS",
     early_archosaurs |-> "COELOPHYSIS",
     proterosuchids |-> "COELOPHYSIS",
     ichthyosaurs |-> "ICHTHYOSAUR",
     plesiosaurs |-> "PLESIOSAUR",
     temnospondyls |-> "TEMNOSPONDYL"]

\* this.transitionDuration, in seconds.
transitionDuration == 5

\* The animals of a list that creatureMapping maps.
MappedAnimals(animals) ==
    {i \in DOMAIN animals : animals[i] \in DOMAIN creatureMapping}

\* The number of spawnRandomCreatures(1) calls updateFauna makes: three for
\* each animal that creatureMapping maps.
FaunaCalls(animals) == 3 * Cardinality(MappedAnimals(animals))

\* updateFauna(animals): clearAll, then spawnRandomCreatures(1) three times
\* for each mapped animal; picks are the random picks of those calls in order.
updateFauna(m, animals, picks) == spawnRandomCreatures(clearAll(m), picks)

\* triggerExtinctionEvent(extinction): health = 0 for each creature for which
\* Math.random() > survivalRate, deaths being how many living ones that hit.
triggerExtinctionEvent(m, deaths) ==
    [m EXCEPT !.alive = @ - deaths, !.dead = @ + deaths]

\* applyPeriodChanges(): updateFauna, then the extinction event of the period
\* if it has one (the atmosphere, flora and sea level calls leave the
\* creatures alone).
applyPeriodChanges(m, periodKey, picks, deaths) ==
    LET period == TIME_PERIODS[periodKey]
        spawned == updateFauna(m, period.animals, picks)
    IN  IF period.extinction
        THEN triggerExtinctionEvent(spawned, Min(deaths, spawned.alive))
        ELSE spawned

\* new TimeTravelSystem(scene, terrain, weatherSystem, creatureManager);
\* transitionProgress is the double it is; see the doubles near the tenths.
NewTravel ==
    [currentPeriod |-> "LATE_PERMIAN", transitioning |-> FALSE,
     transitionProgress |-> DoubleZero, targetPeriod |-> Undefined, vortex |-> FALSE]

\* travelTo(periodKey)
travelTo(tr, periodKey) ==
    IF tr.transitioning THEN tr
    ELSE IF periodKey = tr.currentPeriod THEN tr
    ELSE [tr EXCEPT !.transitioning = TRUE, !.transitionProgress = DoubleZero,
                    !.targetPeriod = periodKey, !.vortex = TRUE]

\* update(delta), the line this.transitionProgress += delta /
\* this.transitionDuration, for a delta of so many half seconds.
advanceProgress(tr, halfSeconds) ==
    [tr EXCEPT !.transitionProgress = DoubleAdd(@, ProgressStep(halfSeconds))]

\* update(delta), the test this.transitionProgress >= 1.
progressDone(tr) == DoubleGE(tr.transitionProgress, 10)

\* completeTransition(), the part that writes the TimeTravelSystem.
completeTransition(tr) ==
    [tr EXCEPT !.currentPeriod = tr.targetPeriod, !.transitioning = FALSE,
               !.transitionProgress = DoubleZero, !.vortex = FALSE]

\* ------------------------------------------------------ timer-removed objects

(***************************************************************************)
(* Four methods add an object to the scene and hand setTimeout a callback  *)
(* that removes that object: createLightning (storm lightning),            *)
(* createVolcanicLightning, createImpact (the explosion flash) and         *)
(* createGroundCracks.  Such an object is [kind, id]; id tells the objects *)
(* of a kind apart.  scene is the set of these objects that are children   *)
(* of the scene, timers the objects whose callback has not run yet.  The   *)
(* callback is a closure over the local constant that holds its object.    *)
(* An id is free again once its object is out of the scene and its         *)
(* callback has run.                                                       *)
(***************************************************************************)

TransientKinds ==
    {"stormLightning", "volcanicLightning", "impactFlash", "groundCrack"}

crackCount == 8

NoTransients == [scene |-> {}, timers |-> {}]

\* The objects of a kind that are in the scene or wait for their callback.
Live(tr, kind) == {o \in tr.scene \cup tr.timers : o.kind = kind}

\* The first n ids that no live object of the kind has.
FreshIds(tr, kind, n) ==
    LET used == {o.id : o \in Live(tr, kind)}
        free == (1..(Cardinality(used) + n)) \ used
    IN  {k \in free : Cardinality({j \in free : j <= k}) <= n}

\* n times: const obj = new ...; this.scene.add(obj);
\* setTimeout(() => { this.scene.remove(obj); }, ms);
addWithTimeout(tr, kind, n) ==
    LET objs == {[kind |-> kind, id |-> k] : k \in FreshIds(tr, kind, n)}
    IN  [scene |-> tr.scene \cup objs, timers |-> tr.timers \cup objs]

\* The callback of the timer set for obj runs: this.scene.remove(obj).
timeoutFiresLatest(tr, obj) ==
    LET same == {o \in tr.scene : o.kind = obj.kind}
        latest == {o \in same : \A p \in same : p.id <= o.id}
    IN  [scene |-> tr.scene \ latest, timers |-> tr.timers \ {obj}]

timeoutFires(tr, obj) ==
    [scene |-> tr.scene \ {obj}, timers |-> tr.timers \ {obj}]

\* WeatherSystem.createLightning(nearPosition)
createLightning(tr) == addWithTimeout(tr, "stormLightning", 1)

\* Volcano.createVolcanicLightning()
createVolcanicLightning(tr) == addWithTimeout(tr, "volcanicLightning", 1)

\* The explosion flash of MeteorImpactSystem.createImpact(position, size).
createImpactFlash(tr) == addWithTimeout(tr, "impactFlash", 1)

\* EarthquakeSystem.createGroundCracks(): crackCount cracks, each with its
\* own timer.
createGroundCracks(tr) == addWithTimeout(tr, "groundCrack", crackCount)

\* ------------------------------------------------- Volcano and VolcanicSystem

ERUPTION_TYPES ==
    {"dormant", "effusive", "explosive", "strombolian", "phreatomagmatic"}

maxLavaFlows == 5

(***************************************************************************)
(* A Volcano is kept as the fields its methods read and write.             *)
(* magmaPressure (0 to 1) is kept in hundredths and eruptionIntensity in   *)
(* tenths; eruptionTimer, nextEruption and delta are whole seconds, so     *)
(* delta * 0.01 is delta hundredths and delta * 0.02 two of them for each  *)
(* second.  lavaFlows is the length of the lavaFlows array, ash, lava and  *)
(* steam are the visible flags of the three particle systems.              *)
(* Math.random() is kept in tenths.                                        *)
(***************************************************************************)

\* new Volcano(position, scene, type); next is the nextEruption drawn.
NewVolcano(next) ==
    [active |-> FALSE, eruptionType |-> "dormant", eruptionIntensity |-> 0,
     magmaPressure |-> 0, lavaFlows |-> 0, eruptionTimer |-> 0,
     nextEruption |-> next, ash |-> FALSE, lava |-> FALSE, steam |-> FALSE]

\* createLavaFlow(): push a flow, shift the oldest out beyond maxLavaFlows.
createLavaFlow(v) ==
    IF v.lavaFlows + 1 > maxLavaFlows THEN v
    ELSE [v EXCEPT !.lavaFlows = @ + 1]

\* startEruption(); rand is the Math.random() drawn.
startEruption(v, rand) ==
    LET kind == IF v.magmaPressure > 95 /\ rand < 3
                    THEN [type |-> "explosive", intensity |-> 10]
                ELSE IF rand < 5
                    THEN [type |-> "strombolian", intensity |-> 7]
                ELSE [type |-> "effusive", intensity |-> 4]
    IN  createLavaFlow([v EXCEPT !.active = TRUE, !.eruptionTimer = 0,
                                 !.eruptionType = kind.type,
                                 !.eruptionIntensity = kind.intensity,
                                 !.ash = TRUE, !.lava = TRUE, !.steam = TRUE])

\* endEruption(); next is the nextEruption drawn.
endEruption(v, next) ==
    [v EXCEPT !.active = FALSE, !.eruptionType = "dormant", !.ash = FALSE,
              !.lava = FALSE, !.nextEruption = next, !.eruptionTimer = 0]

\* updateEruption(delta), the part that writes the Volcano.
updateEruptionAtDuration(v, delta, next) ==
    IF v.eruptionTimer >= 30 + v.eruptionIntensity * 3
        THEN endEruption(v, next)
    ELSE [v EXCEPT !.magmaPressure = Max(0, @ - 2 * delta)]

updateEruption(v, delta, next) ==
    IF v.eruptionTimer > 30 + v.eruptionIntensity * 3
        THEN endEruption(v, next)
    ELSE [v EXCEPT !.magmaPressure = Max(0, @ - 2 * delta)]

\* updateEruption(delta), whether it calls createVolcanicLightning: the
\* eruption goes on, it is explosive, and Math.random() < 0.01 came true
\* (flash).
strikesLightning(v, flash) ==
    /\ ~(v.eruptionTimer > 30 + v.eruptionIntensity * 3)
    /\ v.eruptionType = "explosive"
    /\ flash

\* updateSteam(delta)
updateSteam(v) == [v EXCEPT !.steam = TRUE]

\* Volcano.update(delta) with the random numbers it may draw.
volcanoUpdate(v, delta, rand, next) ==
    LET timed == [v EXCEPT !.eruptionTimer = @ + delta]
        built == [timed EXCEPT !.magmaPressure = Min(100, @ + delta)]
        acted == IF ~v.active
                     THEN IF built.eruptionTimer >= built.nextEruption
                             /\ built.magmaPressure > 80
                              THEN startEruption(built, rand)
                          ELSE built
                 ELSE updateEruption(timed, delta, next)
    IN  IF acted.magmaPressure > 30 THEN updateSteam(acted) ELSE acted

\* Volcano.update(delta), whether it comes to call createVolcanicLightning.
volcanoStrikes(v, delta, flash) ==
    v.active /\ strikesLightning([v EXCEPT !.eruptionTimer = @ + delta], flash)

\* VolcanicSystem.update(delta): every volcano is updated, each with its own
\* random numbers.
volcanicUpdate(vs, delta, rands, nexts) ==
    [i \in DOMAIN vs |-> volcanoUpdate(vs[i], delta, rands[i], nexts[i])]

\* WeatherSystem.updateWeatherEffects(delta, cameraPosition), what it does to
\* the scene: in a storm, when Math.random() < 0.001 came true (strike),
\* createLightning.
updateWeatherEffects(tr, w, strike) ==
    IF w.currentWeather = "storm" /\ strike THEN createLightning(tr) ELSE tr

\* VolcanicSystem.update(delta), the lightning lights it adds to the scene.
volcanicLightning(tr, vs, delta, flashes) ==
    addWithTimeout(tr, "volcanicLightning",
                   Cardinality({i \in DOMAIN vs :
                                    volcanoStrikes(vs[i], delta, flashes[i])}))

\* VolcanicSystem.triggerEruption(index); array indices count from 0.
triggerEruptionActive(vs, index, rand) ==
    IF index + 1 \in DOMAIN vs
        THEN [vs EXCEPT ![index + 1] =
                 startEruption([@ EXCEPT !.magmaPressure = 100], rand)]
    ELSE vs

triggerEruption(vs, index, rand) ==
    IF index + 1 \in DOMAIN vs /\ ~vs[index + 1].active
        THEN [vs EXCEPT ![index + 1] =
                 startEruption([@ EXCEPT !.magmaPressure = 100], rand)]
    ELSE vs

\* --------------------------------- EarthquakeSystem and MeteorImpactSystem

(***************************************************************************)
(* An EarthquakeSystem is kept as active, timer and duration (seconds) and *)
(* dustParticles (whether the field holds a dust cloud).                   *)
(***************************************************************************)

\* new EarthquakeSystem(scene, camera, terrain)
NewQuake ==
    [active |-> FALSE, timer |-> 0, duration |-> 0, dustParticles |-> FALSE]

\* trigger(epicenter, magnitude), the part that writes the EarthquakeSystem;
\* createDustClouds overwrites the dustParticles field.
trigger(q, magnitude) ==
    [active |-> TRUE, timer |-> 0, duration |-> 5 + magnitude * 2,
     dustParticles |-> TRUE]

\* end()
quakeEnd(q) == [q EXCEPT !.active = FALSE, !.dustParticles = FALSE]

\* EarthquakeSystem.update(delta)
quakeUpdate(q, delta) ==
    IF ~q.active THEN q
    ELSE LET shaken == [q EXCEPT !.timer = @ + delta]
         IN  IF shaken.timer >= shaken.duration THEN quakeEnd(shaken)
             ELSE shaken

(***************************************************************************)
(* A MeteorImpactSystem is kept as the number of falling meteors and the   *)
(* ages, in seconds, of its impacts.                                       *)
(***************************************************************************)

\* new MeteorImpactSystem(scene, terrain)
NewMeteors == [meteors |-> 0, impacts |-> <<>>]

\* spawnMeteor(targetPosition, size)
spawnMeteor(m) == [m EXCEPT !.meteors = @ + 1]

\* MeteorImpactSystem.update(delta), the part that writes the system: hits
\* of the falling meteors come down to the ground and createImpact pushes an
\* impact of age 0 for each; then every impact ages and those older than 5 s
\* are removed.
meteorUpdate(m, delta, hits) ==
    LET struck == m.impacts \o [i \in 1..hits |-> 0]
        aged == [i \in DOMAIN struck |-> struck[i] + delta]
    IN  [meteors |-> m.meteors - hits,
         impacts |-> SelectSeq(aged, LAMBDA age : ~(age > 5))]

\* new CatastrophicEventManager(scene, camera, terrain): the two systems.
NewEvents == [earthquakeSystem |-> NewQuake, meteorSystem |-> NewMeteors]

\* ------------------------------------------------------ ProceduralSoundSystem

\* The create...Sound methods.
SoundMethods ==
    {"createWindSound", "createRainSound", "createThunder", "createOceanWaves",
     "createVolcanicRumble", "createCreatureRoar", "createEarthquake",
     "createMeteorImpact"}

\* new ProceduralSoundSystem(): no audio context, no master gain, disabled,
\* volume 0.3 (tenths).  audioContext tells whether the field holds a context
\* (null otherwise); masterGain is <<>> for null and <<v>> for a gain node
\* whose gain value is v tenths; started counts the sounds started and
\* shockwaves the timers set by createMeteorImpact that have not run.
NewSound ==
    [audioContext |-> FALSE, masterGain |-> <<>>, enabled |-> FALSE,
     volume |-> 3, started |-> 0, shockwaves |-> 0]

\* initialize(): with available, the browser creates the audio context, the
\* master gain takes the volume and the system is enabled; otherwise the
\* constructor of the context throws before anything is assigned and the
\* catch clause only logs a warning.
initialize(s, available) ==
    IF available
    THEN [s EXCEPT !.audioContext = TRUE,
                   !.masterGain = <<s.volume>>,
                   !.enabled = TRUE]
    ELSE s

\* A create...Sound method: returns at once when the system is not enabled;
\* otherwise its first statement reads this.audioContext.sampleRate (or calls
\* this.audioContext.createOscillator()), which throws a TypeError on null,
\* and connecting to a null master gain throws before anything is started.
\* With both it starts its sound; createMeteorImpact also sets the 200 ms timer
\* of the shockwave rumble.
createSound(s, method) ==
    IF ~s.enabled THEN [sound |-> s, out |-> "returned"]
    ELSE IF ~s.audioContext \/ s.masterGain = <<>>
         THEN [sound |-> s, out |-> "threw"]
    ELSE [sound |-> [s EXCEPT !.started = @ + 1,
                              !.shockwaves =
                                  IF method = "createMeteorImpact"
                                  THEN @ + 1 ELSE @],
          out |-> "played"]

\* The callback of the shockwave timer: createEarthquake(size * 7).
shockwave(s) ==
    createSound([s EXCEPT !.shockwaves = @ - 1], "createEarthquake")

\* setVolume(volume): the volume clamped to [0, 1] (tenths), passed on to the
\* master gain when there is one.
setVolume(s, volume) ==
    LET v == Max(0, Min(10, volume))
    IN  [s EXCEPT !.volume = v,
                  !.masterGain = IF s.masterGain = <<>> THEN <<>> ELSE <<v>>]

\* setEnabled(enabled): initializes when enabling without an audio context,
\* then assigns the flag whatever initialize did.
setEnabled(s, enabled, available) ==
    LET t == IF enabled /\ ~s.audioContext THEN initialize(s, available) ELSE s
    IN  [t EXCEPT !.enabled = enabled]

\* ------------------------------------------------------------------- state

VARIABLES
    input,      \* the Date handed to the TimeConverter
    fromScale,  \* the scales handed to convert
    toScale,
    config,     \* the config object handed to the contract constructors
    simulated,  \* the values handed to verify
    reference,
    call,       \* the last TimeConverter call and its outcome
    call2,      \* the conversion back of the Date that call returned
    contracts,  \* ContractedVerifier.contracts: testId -> contract
    ev,         \* the last contract / verifier / frame call and its outcome
    memo,       \* the convert call made as the run began, and what it returned
    terrain,    \* the PangeaTerrainGenerator
    cycle,      \* the DayNightCycle
    weather,    \* the WeatherSystem
    fauna,      \* the CreatureManager
    travel,     \* the TimeTravelSystem
    volcanoes,  \* VolcanicSystem.volcanoes
    transients, \* the timer-removed objects in the scene and their timers
    events,     \* the CatastrophicEventManager's two systems
    sound,      \* the ProceduralSoundSystem
    wev         \* the last call on the PANGEA world that the properties look
                \* at and what it did; NoWev after any other call

inputs == <<input, fromScale, toScale, config, simulated, reference>>

vars == <<input, fromScale, toScale, config, simulated, reference,
          call, call2, contracts, ev, memo, leapTable, eopData,
          terrain, cycle, weather, fauna, travel, volcanoes, transients,
          events, sound, wev>>

\* The objects of the PANGEA world.
world == <<terrain, cycle, weather, fauna, travel, volcanoes, transients,
          events, sound>>

world2 == <<terrain, cycle, weather, events>>

\* Scales handed to convert: the six of TIME_SCALES and an unrecognised string.
ScaleInputs == TIME_SCALES \cup {"LOCAL"}

\* Milliseconds into the day of the sampled Dates: midnight, just after, ten
\* seconds before the next midnight, and the last millisecond of the day.
MsSamples == {0, 1, 86390000, 86399999}

\* Days sampled: around every table entry, around the epoch (before the table
\* starts), and 2016-06-01.
DaySamples ==
    {LEAP_SECONDS[i].date.d + k : i \in 1..Len(LEAP_SECONDS), k \in -DayWindow..DayWindow}
        \cup {-1, 0, 16953}

InputDates == {MkDate(d, ms) : d \in DaySamples, ms \in MsSamples}

FrameInputs == FRAMES \cup {"GALACTIC"}

DatumInputs == HEIGHT_DATUMS \cup {Undefined, "", "NAVD88"}

OriginInputs == ORIGINS \cup {Undefined, "LUNAR"}

MkConfig(f, t, h, o) == [frame |-> f, timeScale |-> t, heightDatum |-> h, origin |-> o]

DefaultConfig == MkConfig("ECEF", "UTC", "ELLIPSOID", "GEOCENTRIC")

\* Configs: every frame with every datum, every time scale, every origin.
ConfigInputs ==
    {MkConfig(f, "TT", h, "GEOCENTRIC") : f \in FrameInputs, h \in DatumInputs}
        \cup {MkConfig(f, "LOCAL", Undefined, o) :
                f \in {"ECI", "GALACTIC"}, o \in {"GEOCENTRIC", "LUNAR"}}
        \cup {MkConfig("ECI", t, Undefined, "GEOCENTRIC") : t \in ScaleInputs}
        \cup {MkConfig("ECI", "TT", Undefined, o) : o \in OriginInputs}

MkValue(f, t, v) == [frame |-> f, timeScale |-> t, value |-> v]

DefaultValue == MkValue("ECEF", "UTC", 0)

\* Pairs (simulated, reference): every pair of frames, every pair of time scales.
ValueInputs ==
    {<<MkValue(f1, t1, v), MkValue(f2, "UTC", 0)>> :
        f1 \in FRAMES, f2 \in FRAMES, t1 \in {"UTC"}, v \in {0, 1}}
        \cup {<<MkValue(f1, t1, v), MkValue("ECEF", t2, 0)>> :
                f1 \in {"ECI"}, t1 \in TIME_SCALES, t2 \in TIME_SCALES,
                v \in {0, 1}}

\* Contracts handed to registerContract.
SampleContracts ==
    {TruthContract(DefaultConfig).obj,
     CelestialContract(MkConfig("ECI", "TT", Undefined, "GEOCENTRIC")).obj}

\* The ECEF vector handed to ecefToECI.
SampleVec == [x |-> 3, y |-> 4, z |-> 5]

NoJD == [day |-> 0, micro |-> -1]

NoCall ==
    [op |-> "none", from |-> "-", to |-> "-", arg |-> NoDate, res |-> NoDate,
     tai |-> NoDate, num |-> -1, jd |-> NoJD, threw |-> FALSE]

NoVec == [x |-> 0, y |-> 0, z |-> 0]

\* The eopData objects handed to ecefToGCRF: EOP_DATA itself, and an object
\* with other values.
EopInputs == {EOP_DATA, [dut1 |-> 2500, xp |-> -50000, yp |-> 300000]}

NoEop == [dut1 |-> 0, xp |-> 0, yp |-> 0]

NoEv ==
    [op |-> "none", threw |-> FALSE, made |-> NoContract, testId |-> 0,
     warnings |-> {}, ret |-> FALSE, vec |-> NoVec, eop |-> NoEop,
     gcrf |-> Vector3(NoVec)]

TestIds == 1..MaxTests

\* convert(input, fromScale, toScale) called once, before anything else ran.
FirstConvert ==
    LET r == convert(input, fromScale, toScale)
    IN  [arg |-> input, from |-> fromScale, to |-> toScale,
         res |-> r.value, threw |-> r.threw]

NoWev == [op |-> "none", args |-> <<>>, out |-> <<>>]

\* The PANGEA world as constructed, no call made on it.
WorldIdle ==
    /\ terrain = NewTerrain
    /\ cycle = NewCycle
    /\ weather = NewWeather
    /\ fauna = NewManager
    /\ travel = NewTravel
    /\ volcanoes = <<>>
    /\ transients = NoTransients
    /\ events = NewEvents
    /\ sound = NewSound
    /\ wev = NoWev

Quiet ==
    /\ leapTable = LEAP_SECONDS
    /\ eopData = EOP_DATA
    /\ memo = FirstConvert
    /\ call = NoCall
    /\ call2 = NoCall
    /\ contracts = [t \in TestIds |-> NoContract]
    /\ ev = NoEv

\* Time conversion: every sampled Date with every pair of scales.
Init ==
    /\ input \in InputDates
    /\ fromScale \in ScaleInputs
    /\ toScale \in ScaleInputs
    /\ config = DefaultConfig
    /\ simulated = DefaultValue
    /\ reference = DefaultValue
    /\ Quiet
    /\ WorldIdle

\* ----------------------------------------------------- TimeConverter actions

\* getLeapSeconds walking the table with LEAP_SECONDS.shift(): the entries it
\* has passed are gone from the array afterwards.
GetLeapSecondsShifting ==
    /\ call' = [NoCall EXCEPT !.op = "getLeapSeconds", !.arg = input,
                              !.num = getLeapSeconds(input)]
    /\ leapTable' = SelectSeq(leapTable, LAMBDA e : ~DateGE(input, e.date))
    /\ call2' = NoCall
    /\ ev' = NoEv
    /\ UNCHANGED <<world, wev, eopData, memo, inputs, contracts>>

GetLeapSeconds ==
    /\ call' = [NoCall EXCEPT !.op = "getLeapSeconds", !.arg = input,
                              !.num = getLeapSeconds(input)]
    /\ call2' = NoCall
    /\ ev' = NoEv
    /\ UNCHANGED <<world, wev, tables, memo, inputs, contracts>>

UtcToTAI ==
    /\ call' = [NoCall EXCEPT !.op = "utcToTAI", !.arg = input,
                              !.res = utcToTAI(input)]
    /\ call2' = NoCall
    /\ ev' = NoEv
    /\ UNCHANGED <<world, wev, tables, memo, inputs, contracts>>

\* utcToTT keeps its intermediate TAI Date in the local "tai".
UtcToTT ==
    /\ call' = [NoCall EXCEPT !.op = "utcToTT", !.arg = input,
                              !.tai = utcToTAI(input), !.res = utcToTT(input)]
    /\ call2' = NoCall
    /\ ev' = NoEv
    /\ UNCHANGED <<world, wev, tables, memo, inputs, contracts>>

UtcToTDB ==
    /\ call' = [NoCall EXCEPT !.op = "utcToTDB", !.arg = input,
                              !.res = utcToTDB(input)]
    /\ call2' = NoCall
    /\ ev' = NoEv
    /\ UNCHANGED <<world, wev, tables, memo, inputs, contracts>>

UtcToUT1 ==
    /\ call' = [NoCall EXCEPT !.op = "utcToUT1", !.arg = input,
                              !.res = utcToUT1(input)]
    /\ call2' = NoCall
    /\ ev' = NoEv
    /\ UNCHANGED <<world, wev, tables, memo, inputs, contracts>>

DateToJulianDate ==
    /\ call' = [NoCall EXCEPT !.op = "dateToJulianDate", !.arg = input,
                              !.jd = dateToJulianDate(input)]
    /\ call2' = NoCall
    /\ ev' = NoEv
    /\ UNCHANGED <<world, wev, tables, memo, inputs, contracts>>

\* convert(input, fromScale, toScale)
Convert ==
    /\ LET r == convert(input, fromScale, toScale)
       IN  call' = [NoCall EXCEPT !.op = "convert", !.from = fromScale,
                                  !.to = toScale, !.arg = input,
                                  !.res = r.value, !.threw = r.threw]
    /\ call2' = NoCall
    /\ ev' = NoEv
    /\ UNCHANGED <<world, wev, tables, memo, inputs, contracts>>

\* convert(result of the last convert, toScale, fromScale): the conversion
\* back to the scale the round trip started from.
ConvertBack ==
    /\ call.op = "convert"
    /\ ~call.threw
    /\ LET r == convert(call.res, call.to, call.from)
       IN  call2' = [NoCall EXCEPT !.op = "convert", !.from = call.to,
                                   !.to = call.from, !.arg = call.res,
                                   !.res = r.value, !.threw = r.threw]
    /\ ev' = NoEv
    /\ UNCHANGED <<world, wev, tables, memo, inputs, call, contracts>>

Next ==
    \/ GetLeapSeconds
    \/ UtcToTAI
    \/ UtcToTT
    \/ UtcToTDB
    \/ UtcToUT1
    \/ DateToJulianDate
    \/ Convert
    \/ ConvertBack

Spec == Init /\ [][Next]_vars

\* ------------------------------------------- contract and verifier actions

\* new TruthContract(config)
NewTruthContract ==
    /\ LET r == TruthContract(config)
       IN  ev' = [NoEv EXCEPT !.op = "TruthContract", !.threw = r.threw,
                              !.made = r.obj]
    /\ call' = NoCall
    /\ call2' = NoCall
    /\ UNCHANGED <<world, wev, tables, memo, inputs, contracts>>

\* new CelestialContract(config)
NewCelestialContract ==
    /\ LET r == CelestialContract(config)
       IN  ev' = [NoEv EXCEPT !.op = "CelestialContract", !.threw = r.threw,
                              !.made = r.obj]
    /\ call' = NoCall
    /\ call2' = NoCall
    /\ UNCHANGED <<world, wev, tables, memo, inputs, contracts>>

\* registerContract(testId, contract): this.contracts.set(testId, contract)
RegisterContract ==
    \E testId \in TestIds, contract \in SampleContracts :
        /\ contracts' = [contracts EXCEPT ![testId] = contract]
        /\ ev' = [NoEv EXCEPT !.op = "registerContract", !.testId = testId,
                              !.made = contract]
        /\ call' = NoCall
        /\ call2' = NoCall
        /\ UNCHANGED <<world, wev, tables, memo, inputs>>

\* verify(testId, simulated, reference)
Verify ==
    \E testId \in TestIds :
        /\ LET r == verify(contracts[testId], simulated, reference)
           IN  ev' = [NoEv EXCEPT !.op = "verify", !.testId = testId,
                                  !.threw = r.threw, !.warnings = r.warnings,
                                  !.ret = r.ret]
        /\ call' = NoCall
        /\ call2' = NoCall
        /\ UNCHANGED <<world, wev, tables, memo, inputs, contracts>>

\* FrameTransformer.validateFrameCompatibility(simulated.frame, reference.frame)
ValidateFrameCompatibility ==
    /\ ev' = [NoEv EXCEPT !.op = "validateFrameCompatibility",
                          !.warnings = validateFrameCompatibility(
                                           simulated.frame, reference.frame)]
    /\ call' = NoCall
    /\ call2' = NoCall
    /\ UNCHANGED <<world, wev, tables, memo, inputs, contracts>>

\* FrameTransformer.ecefToECI(SampleVec, input)
EcefToECI ==
    /\ ev' = [NoEv EXCEPT !.op = "ecefToECI", !.vec = ecefToECI(SampleVec, input)]
    /\ call' = NoCall
    /\ call2' = NoCall
    /\ UNCHANGED <<world, wev, tables, memo, inputs, contracts>>

\* IAUTransform.ecefToGCRF(SampleVec, input, eop)
EcefToGCRF ==
    \E eop \in EopInputs :
        /\ LET r == ecefToGCRF(SampleVec, input, eop)
           IN  ev' = [NoEv EXCEPT !.op = "ecefToGCRF", !.eop = eop,
                                  !.gcrf = r.vec, !.made = r.contract,
                                  !.threw = r.threw]
        /\ call' = NoCall
        /\ call2' = NoCall
        /\ UNCHANGED <<world, wev, tables, memo, inputs, contracts>>

\* The contract module: one of the three kinds of input varied.
InitContract ==
    /\ \/ /\ input \in {MkDate(16953, 0), MkDate(-1, 86390000)}
          /\ fromScale \in ScaleInputs
          /\ toScale \in ScaleInputs
          /\ config = DefaultConfig
          /\ simulated = DefaultValue
          /\ reference = DefaultValue
       \/ /\ input = MkDate(16953, 0)
          /\ fromScale = "UTC"
          /\ toScale = "TAI"
          /\ config \in ConfigInputs
          /\ simulated = DefaultValue
          /\ reference = DefaultValue
       \/ /\ input = MkDate(16953, 0)
          /\ fromScale = "UTC"
          /\ toScale = "TAI"
          /\ config = DefaultConfig
          /\ \E pair \in ValueInputs :
                /\ simulated = pair[1]
                /\ reference = pair[2]
    /\ Quiet
    /\ WorldIdle

NextContract ==
    \/ GetLeapSeconds
    \/ UtcToTAI
    \/ UtcToTT
    \/ UtcToTDB
    \/ UtcToUT1
    \/ DateToJulianDate
    \/ Convert
    \/ ConvertBack
    \/ NewTruthContract
    \/ NewCelestialContract
    \/ RegisterContract
    \/ Verify
    \/ ValidateFrameCompatibility
    \/ EcefToECI
    \/ EcefToGCRF

SpecContract == InitContract /\ [][NextContract]_vars

\* ------------------------------------------------------------ properties

\* The leap-second count the table gives for the instant d: the value of the
\* last entry dated at or before d, and the pre-1972 default before the table.
EntriesUpTo(d) == {i \in 1..Len(LEAP_SECONDS) : DateGE(d, LEAP_SECONDS[i].date)}

TableLeapAt(d) ==
    IF EntriesUpTo(d) = {} THEN PreTableLeapSeconds
    ELSE LEAP_SECONDS[CHOOSE i \in EntriesUpTo(d) :
                          \A j \in EntriesUpTo(d) : j <= i].leapSeconds

TableStart == LEAP_SECONDS[1].date

\* C1: for every UTC date d on or after 1972-01-01, getLeapSeconds(d) is the
\* leapSeconds value of the last table entry dated at or before d (a date equal
\* to an entry's date takes that entry's value); 2016-06-01 gives 36.
C1_LastEntryAtOrBefore ==
    (call.op = "getLeapSeconds" /\ DateGE(call.arg, TableStart))
        => /\ call.num = TableLeapAt(call.arg)
           /\ call.arg = MkDate(16953, 0) => call.num = 36

\* C1 witness: getLeapSeconds was called on 2016-06-01 and returned 36.
C1_Witness ==
    /\ call.op = "getLeapSeconds"
    /\ call.arg = MkDate(16953, 0)
    /\ call.num = 36

\* C2: for every UTC date d on or after 1972-01-01, utcToTAI(d) - d is the
\* table's leap-second count at d in whole seconds (that count times 1000 ms).
C2_TAIMinusUTC ==
    (call.op = "utcToTAI" /\ DateGE(call.arg, TableStart))
        => DiffMs(call.res, call.arg) = 1000 * TableLeapAt(call.arg)

\* C2 witness: utcToTAI was called on 2017-01-01T00:00:00Z and added 37 s.
C2_Witness ==
    /\ call.op = "utcToTAI"
    /\ call.arg = MkDate(17167, 0)
    /\ DiffMs(call.res, call.arg) = 37000

\* C3: converting a UTC instant to TAI and the result back to UTC returns the
\* original instant, for every instant.
C3_RoundTrip ==
    (/\ call.op = "convert" /\ call.from = "UTC" /\ call.to = "TAI"
     /\ call2.op = "convert" /\ call2.from = "TAI" /\ call2.to = "UTC")
        => /\ ~call2.threw
           /\ call2.res = call.arg

\* The scales C4 speaks of.
OffsetScales == {"UTC", "TAI", "TT", "UT1"}

\* The UTC instants whose reading in the given scale is t, by the fixed
\* offsets TAI = UTC + leapSeconds, TT = TAI + 32.184 s, UT1 = UTC + DUT1
\* (DUT1 = -123.4 ms, so a whole-millisecond UT1 reading has two candidates).
UTCOf(t, scale) ==
    CASE scale = "UTC" -> {t}
      [] scale = "TAI" ->
            {u \in {AddMs(t, -(1000 * n)) : n \in 10..37} :
                AddMs(u, 1000 * TableLeapAt(u)) = t}
      [] scale = "TT" ->
            {u \in {AddMs(t, -(1000 * n) - 32184) : n \in 10..37} :
                AddMs(u, 1000 * TableLeapAt(u) + 32184) = t}
      [] scale = "UT1" -> {AddMs(t, 123), AddMs(t, 124)}

\* The readings in the given scale of the UTC instant u (UT1 to the nearest
\* millisecond on either side).
ReadingsOf(u, scale) ==
    CASE scale = "UTC" -> {u}
      [] scale = "TAI" -> {AddMs(u, 1000 * TableLeapAt(u))}
      [] scale = "TT" -> {AddMs(u, 1000 * TableLeapAt(u) + 32184)}
      [] scale = "UT1" -> {AddMs(u, -124), AddMs(u, -123)}

\* C4: for every ordered pair of distinct scales among UTC, TAI, TT and UT1,
\* convert(t, from, to) returns the instant related to t by the fixed offsets,
\* whatever the source scale is.
C4_FixedOffsets ==
    (/\ call.op = "convert"
     /\ call.from # call.to
     /\ call.from \in OffsetScales
     /\ call.to \in OffsetScales)
        => /\ ~call.threw
           /\ \E u \in UTCOf(call.arg, call.from) :
                  call.res \in ReadingsOf(u, call.to)

\* C5: for every UTC date d, utcToTT(d) - utcToTAI(d) is exactly 32184 ms.
C5_TTMinusTAI ==
    call.op = "utcToTT" => DiffMs(call.res, call.tai) = 32184

\* C6: convert(t, scale, scale) returns t unchanged and does not throw, for
\* any scale value, GPS and unrecognised strings included.
C6_SameScaleIdentity ==
    /\ (call.op = "convert" /\ call.from = call.to)
           => (~call.threw /\ call.res = call.arg)
    /\ (call2.op = "convert" /\ call2.from = call2.to)
           => (~call2.threw /\ call2.res = call2.arg)

\* C6 witness: convert(t, GPS, GPS) returned t, one day before a table entry
\* at ten seconds to midnight.
C6_Witness ==
    /\ call.op = "convert"
    /\ call.from = "GPS"
    /\ call.to = "GPS"
    /\ ~call.threw
    /\ call.res = MkDate(17166, 86390000)

Constructors == {"TruthContract", "CelestialContract"}

\* C7: constructing a contract throws whenever config.frame is not in FRAMES,
\* config.timeScale is not in TIME_SCALES, or config.heightDatum is a string
\* that is not in HEIGHT_DATUMS (an omitted heightDatum is accepted).
C7_RejectsUnrecognisedTags ==
    (/\ ev.op \in Constructors
     /\ \/ config.frame \notin FRAMES
        \/ config.timeScale \notin TIME_SCALES
        \/ (config.heightDatum # Undefined /\ config.heightDatum \notin HEIGHT_DATUMS))
        => ev.threw

\* C8 as stated: only the contract constructors throw; convert (for any pair
\* of scales), registerContract, verify (for any testId) and the frame
\* operations never do.
C8_OnlyConstructorsThrow ==
    /\ ~call.threw
    /\ ~call2.threw
    /\ ev.threw => ev.op \in Constructors

\* The scales the switch of convert has a case for.
TargetScales == {"UTC", "TAI", "TT", "TDB", "UT1"}

\* C8 amended: a constructor throws only on an unrecognised frame, time scale,
\* datum or (CelestialContract) origin; convert throws exactly when the scales
\* differ and toScale is not UTC, TAI, TT, TDB or UT1; verify throws exactly
\* when no contract is registered for testId; nothing else throws.
C8_WhatThrows ==
    /\ call.op = "convert"
           => (call.threw <=> (call.from # call.to /\ call.to \notin TargetScales))
    /\ call.op # "convert" => ~call.threw
    /\ call2.op = "convert"
           => (call2.threw <=> (call2.from # call2.to /\ call2.to \notin TargetScales))
    /\ (ev.op \in Constructors /\ ev.threw)
           => \/ config.frame \notin FRAMES
              \/ config.timeScale \notin TIME_SCALES
              \/ config.heightDatum \notin HEIGHT_DATUMS \cup {Undefined}
              \/ (ev.op = "CelestialContract" /\ config.origin \notin ORIGINS)
    /\ ev.op = "verify" => (ev.threw <=> contracts[ev.testId] = NoContract)
    /\ ev.op \notin Constructors \cup {"verify"} => ~ev.threw

\* C8 witness: verify threw for a test id without a contract while another
\* test id had one registered.
C8_Witness ==
    /\ ev.op = "verify"
    /\ ev.threw
    /\ contracts[ev.testId] = NoContract
    /\ \E t \in TestIds : contracts[t] # NoContract

\* Two frames are of the same class when both rotate or both are inertial.
SameFrameClass(f1, f2) ==
    \/ (f1 \in RotatingFrames /\ f2 \in RotatingFrames)
    \/ (f1 \in InertialFrames /\ f2 \in InertialFrames)

\* C9: verify warns whenever the two frames are not of the same class and
\* whenever the two time scales differ, for every pair of frames of FRAMES and
\* every pair of time scales, and does not warn otherwise.
C9_WarnsOnEveryMismatch ==
    (ev.op = "verify" /\ ~ev.threw)
        => /\ "Frame mismatch" \in ev.warnings
                  <=> ~SameFrameClass(simulated.frame, reference.frame)
           /\ "Time scale mismatch" \in ev.warnings
                  <=> simulated.timeScale # reference.timeScale

\* C10: for a test id with a registered contract, verify returns true and does
\* not throw, whatever the frames, time scales and values are.
C10_VerifyReturnsTrue ==
    (ev.op = "verify" /\ contracts[ev.testId] # NoContract)
        => (~ev.threw /\ ev.ret = TRUE)

\* C10 witness: verify returned true although the frames, the time scales and
\* the values all differed and both warnings were emitted.
C10_Witness ==
    /\ ev.op = "verify"
    /\ ev.ret = TRUE
    /\ ev.warnings = {"Frame mismatch", "Time scale mismatch"}
    /\ simulated.value # reference.value

\* C11: convert is deterministic and pure. A convert call with the arguments
\* of the convert call made as the run began returns what that call returned
\* (the same instant, or the same throw), whichever TimeConverter, contract,
\* verifier and frame operations ran in between; and at every point of the
\* run the input timestamp, the LEAP_SECONDS table and EOP_DATA are what they
\* were at the start.
C11_DeterministicAndPure ==
    /\ leapTable = LEAP_SECONDS
    /\ eopData = EOP_DATA
    /\ input = memo.arg
    /\ (call.op = "convert" /\ call.from = memo.from /\ call.to = memo.to)
          => /\ call.arg = memo.arg
             /\ call.res = memo.res
             /\ call.threw = memo.threw

\* C11 witness: a later convert call with the same arguments, made once both
\* test ids had a contract registered, returned an instant that is not the
\* input instant.
C11_Witness ==
    /\ call.op = "convert"
    /\ ~call.threw
    /\ call.res # input
    /\ call.res = memo.res
    /\ \A t \in TestIds : contracts[t] # NoContract

\* A rotation acting on a vector that earlier rotations have acted on.
Rotated(v, matrix) == [v EXCEPT !.applied = Append(@, matrix[1])]

timeModule == <<inputs, call, call2, contracts, ev, memo, tables>>

TimeIdle ==
    /\ input = MkDate(0, 0)
    /\ fromScale = "UTC"
    /\ toScale = "UTC"
    /\ config = DefaultConfig
    /\ simulated = DefaultValue
    /\ reference = DefaultValue
    /\ Quiet

\* Timers that were set one after the other with the same delay run in the
\* order in which they were set.  The cracks of an earthquake are set so, in
\* the order of their ids; a crack's timer is due when no crack before it
\* waits.  The other timers run in any order.
Due(tr, obj) ==
    /\ obj \in tr.timers
    /\ obj.kind = "groundCrack"
           => \A o \in tr.timers : o.kind = obj.kind => o.id >= obj.id

\* The callback of the timer set for obj runs.
TimeoutOf(obj) ==
    /\ Due(transients, obj)
    /\ transients' = timeoutFires(transients, obj)
    /\ wev' = NoWev
    /\ UNCHANGED <<timeModule, sound, volcanoes, world2, fauna, travel>>

\* The callback of a timer runs; timers fire in no fixed order.
TimeoutFires == \E obj \in transients.timers : TimeoutOf(obj)

\* Camera coordinates handed to update: the corners of the chunks up to
\* MaxCamChunk chunks from the origin, and a coordinate just below a corner on
\* either side of zero.
CameraSamples ==
    {c * chunkSize : c \in -MaxCamChunk..MaxCamChunk} \cup {-1, chunkSize - 1}

\* terrain.update(cameraX, cameraZ)
TerrainUpdate ==
    \E cameraX \in CameraSamples, cameraZ \in CameraSamples :
        /\ terrain' = update(terrain, cameraX, cameraZ)
        /\ wev' = [NoWev EXCEPT !.op = "terrain.update",
                                !.args = <<cameraX, cameraZ>>]
        /\ UNCHANGED <<timeModule, sound, events, transients, volcanoes, fauna, travel, cycle, weather>>

InitTerrain ==
    /\ TimeIdle
    /\ WorldIdle

NextTerrain ==
    \/ TerrainUpdate

SpecTerrain == InitTerrain /\ [][NextTerrain]_vars

\* The chunks within Chebyshev distance n of chunk (cx, cz).
Square(cx, cz, n) == {<<x, z>> : x \in (cx - n)..(cx + n), z \in (cz - n)..(cz + n)}

\* C13: after update(cameraX, cameraZ) every chunk within distance 3 of the
\* camera's chunk is loaded and no loaded chunk lies farther than distance 4;
\* and after any sequence of update calls at most 81 chunks are loaded, each
\* of them in the scene.
C13_LoadedAroundCamera ==
    /\ Cardinality(terrain.chunks) <= 81
    /\ terrain.scene = terrain.chunks
    /\ wev.op = "terrain.update"
          => LET cx == wev.args[1] \div 100
                 cz == wev.args[2] \div 100
             IN  /\ Square(cx, cz, 3) \subseteq terrain.chunks
                 /\ terrain.chunks \subseteq Square(cx, cz, 4)

\* C13 witness: after an update at a negative camera coordinate, chunks at
\* distance exactly 4 that an earlier update loaded are still loaded, and a
\* chunk at distance 4 that no update has generated is not.
C13_Witness ==
    /\ wev.op = "terrain.update"
    /\ wev.args[1] = -1
    /\ LET cx == wev.args[1] \div 100
           cz == wev.args[2] \div 100
       IN  /\ terrain.chunks \ Square(cx, cz, 3) # {}
           /\ Square(cx, cz, 4) \ terrain.chunks # {}

\* ------------------------------------------------------------- day and night

\* Seconds of real time handed to update: nothing, a second, a minute, and the
\* twenty minutes of a frame that comes after the page was in the background.
DeltaSamples == {0, 1, 60, 1200}

\* Speeds handed to setSpeed: the documented 1x and 10x, and a reversed clock.
SpeedSamples == {1, 10, -1}

\* Times handed to setTime: midnight and noon.
TimeSamples == {0, dayLength \div 2}

\* cycle.update(delta)
CycleUpdate ==
    \E delta \in DeltaSamples :
        /\ cycle.time >= -(MaxCycleDays * dayLength)
        /\ cycle.time <= MaxCycleDays * dayLength
        /\ cycle' = DayNightUpdate(cycle, delta)
        /\ wev' = [NoWev EXCEPT !.op = "cycle.update", !.args = <<delta>>]
        /\ UNCHANGED <<timeModule, sound, events, transients, volcanoes, fauna, travel, terrain, weather>>

\* cycle.setSpeed(speed)
CycleSetSpeed ==
    \E speed \in SpeedSamples :
        /\ cycle' = setSpeed(cycle, speed)
        /\ wev' = [NoWev EXCEPT !.op = "cycle.setSpeed", !.args = <<speed>>]
        /\ UNCHANGED <<timeModule, sound, events, transients, volcanoes, fauna, travel, terrain, weather>>

\* cycle.setTime(time)
CycleSetTime ==
    \E time \in TimeSamples :
        /\ cycle' = setTime(cycle, time)
        /\ wev' = [NoWev EXCEPT !.op = "cycle.setTime", !.args = <<time>>]
        /\ UNCHANGED <<timeModule, sound, events, transients, volcanoes, fauna, travel, terrain, weather>>

InitCycle ==
    /\ TimeIdle
    /\ WorldIdle

NextCycle ==
    \/ CycleUpdate
    \/ CycleSetSpeed
    \/ CycleSetTime

SpecCycle == InitCycle /\ [][NextCycle]_vars

\* C14: DayNightCycle.time stays within the 0-1 range after any sequence of
\* update(delta) calls with delta >= 0, whatever speed setSpeed has set.
C14_TimeInRange ==
    /\ cycle.time >= 0
    /\ cycle.time <= dayLength

\* ------------------------------------------------------------------- weather

\* Biomes handed to update and changeWeather: the biomes of PANGEA_BIOMES by
\* name, and no biome.
BiomeSamples == DOMAIN BiomeWords \cup {Undefined}

\* Durations that 30 + Math.random() * 90 yields, in whole seconds.
DurationSamples == {30, 75, 105}

\* Seconds handed to WeatherSystem.update.
WeatherDeltas == {15, 30}

\* weather.changeWeather(biome)
WeatherChange ==
    \E biome \in BiomeSamples, duration \in DurationSamples :
        \E picked \in possibleWeather(biome) :
            /\ weather' = changeWeather(weather, picked, duration)
            /\ wev' = [NoWev EXCEPT !.op = "weather.changeWeather"]
            /\ UNCHANGED <<timeModule, sound, events, transients, volcanoes, fauna, travel, terrain, cycle>>

\* weather.update(delta, cameraPosition, biome): the duration runs down,
\* changeWeather(biome) is called once it is used up, and then
\* updateWeatherEffects moves particles and may strike lightning.
WeatherUpdate ==
    \E delta \in WeatherDeltas, biome \in BiomeSamples,
       duration \in DurationSamples, strike \in BOOLEAN :
        \E picked \in possibleWeather(biome) :
            /\ LET ran == [weather EXCEPT !.weatherDuration = @ - delta]
               IN  weather' = IF ran.weatherDuration <= 0
                              THEN changeWeather(ran, picked, duration)
                              ELSE ran
            /\ transients' = updateWeatherEffects(transients, weather', strike)
            /\ Cardinality(Live(transients', "stormLightning")) <= MaxBolts
            /\ wev' = [NoWev EXCEPT !.op = "weather.update",
                                    !.args = <<delta>>]
            /\ UNCHANGED <<timeModule, sound, events, volcanoes, fauna, travel, terrain, cycle>>

\* weather.forceWeather(type)
WeatherForce ==
    \E type \in WEATHER_TYPES :
        /\ weather' = forceWeather(weather, type)
        /\ wev' = [NoWev EXCEPT !.op = "weather.forceWeather", !.args = <<type>>]
        /\ UNCHANGED <<timeModule, sound, events, transients, volcanoes, fauna, travel, terrain, cycle>>

InitWeather ==
    /\ TimeIdle
    /\ WorldIdle

NextWeather ==
    \/ WeatherChange
    \/ WeatherUpdate
    \/ WeatherForce
    \/ TimeoutFires

SpecWeather == InitWeather /\ [][NextWeather]_vars

\* The particle system that belongs to a weather type, as the claim lists it.
ParticlesOf(type) ==
    CASE type \in {"rain", "storm"} -> {"rainParticles"}
      [] type = "snow" -> {"snowParticles"}
      [] type = "sandstorm" -> {"sandParticles"}
      [] type = "volcanic_ash" -> {"ashParticles"}
      [] type \in {"clear", "fog", "mist"} -> {}

\* C16: the visible particle systems are always exactly the one that belongs
\* to currentWeather (none for clear, fog and mist), after every changeWeather
\* and after every forceWeather.
C16_VisibleMatchesWeather ==
    weather.visible = ParticlesOf(weather.currentWeather)

\* ------------------------------------------------------ creatures, time travel

\* The types Math.random() picks in spawnRandomCreatures: a land type that
\* creatureMapping names, a land type it does not name, and an aquatic type.
RandomTypeSamples == {"LYSTROSAURUS", "DIMETRODON", "PLESIOSAUR"}

\* The outcomes of n random picks: one type, and terrain above sea level for
\* none of the picks, for the first only, or for all.
PickRuns(n) ==
    {[i \in 1..n |-> [type |-> t, y |-> IF i <= j THEN 1 ELSE -1]] :
        t \in RandomTypeSamples, j \in {0, 1, n} \cap 0..n}

\* The counts handed to spawnInBiome and to spawnRandomCreatures.
BiomeCounts == {1, 2}

RandomCounts == {1, 5}

\* The deltas handed to TimeTravelSystem.update, in half seconds: 2 s and 5 s
\* where the creatures are followed, and 0.5 s, 1 s, 2 s and 5 s where the
\* transition is.
TravelDeltas == {4, 10}

FrameDeltas == {1, 2, 4, 10}

\* The numbers of creatures an extinction event sets to health 0 on arrival:
\* none where the period has no extinction.
ExtinctionDeaths(periodKey) ==
    IF TIME_PERIODS[periodKey].extinction THEN 0..3 ELSE {0}


\* creatureManager.spawnCreature(type, position)
SpawnCreature ==
    /\ Length(fauna) < MaxHeld
    /\ fauna' = spawnCreature(fauna)
    /\ wev' = NoWev
    /\ UNCHANGED <<timeModule, sound, transients, volcanoes, world2, travel>>

\* creatureManager.spawnInBiome(biome, count)
SpawnInBiome ==
    \E count \in BiomeCounts :
        \E found \in [1..count -> BOOLEAN] :
            /\ fauna' = spawnInBiome(fauna, found)
            /\ wev' = NoWev
            /\ UNCHANGED <<timeModule, sound, transients, volcanoes, world2, travel>>

\* creatureManager.spawnRandomCreatures(count)
SpawnRandomCreatures ==
    \E count \in RandomCounts :
        \E picks \in PickRuns(count) :
            /\ Length(fauna) < MaxHeld
            /\ fauna' = spawnRandomCreatures(fauna, picks)
            /\ wev' = NoWev
            /\ UNCHANGED <<timeModule, sound, transients, volcanoes, world2, travel>>

\* creatureManager.update(delta)
ManagerUpdate ==
    \E picks \in PickRuns(5) :
        /\ fauna' = managerUpdate(fauna, picks)
        /\ wev' = [NoWev EXCEPT !.op = "creatures.update",
                                !.out = <<fauna.dead>>]
        /\ UNCHANGED <<timeModule, sound, transients, volcanoes, world2, travel>>

\* creatureManager.clearAll()
ClearAll ==
    /\ fauna' = clearAll(fauna)
    /\ wev' = NoWev
    /\ UNCHANGED <<timeModule, sound, transients, volcanoes, world2, travel>>

\* timeTravel.travelTo(periodKey)
TravelTo ==
    \E periodKey \in DOMAIN TIME_PERIODS :
        /\ travel' = travelTo(travel, periodKey)
        /\ wev' = NoWev
        /\ UNCHANGED <<timeModule, sound, transients, volcanoes, world2, fauna>>

\* timeTravel.update(delta): nothing while not transitioning; otherwise the
\* progress advances, and at progress >= 1 completeTransition switches the
\* period and applyPeriodChanges replaces the creatures.
TravelUpdateOver(deltas) ==
    \E delta \in deltas :
        LET advanced == advanceProgress(travel, delta)
            called == [NoWev EXCEPT
                          !.op = "travel.update",
                          !.args = <<advanced.transitionProgress.tenths,
                                     travel.targetPeriod>>]
        IN  \/ /\ ~travel.transitioning
               /\ wev' = NoWev
               /\ UNCHANGED <<timeModule, sound, transients, volcanoes, world2, fauna, travel>>
            \/ /\ travel.transitioning
               /\ ~progressDone(advanced)
               /\ travel' = advanced
               /\ wev' = called
               /\ UNCHANGED <<timeModule, sound, transients, volcanoes, world2, fauna>>
            \/ /\ travel.transitioning
               /\ progressDone(advanced)
               /\ LET animals == TIME_PERIODS[travel.targetPeriod].animals
                  IN  \E picks \in PickRuns(FaunaCalls(animals)) :
                          \E deaths \in ExtinctionDeaths(travel.targetPeriod) :
                              /\ travel' = completeTransition(advanced)
                              /\ fauna' = applyPeriodChanges(
                                              fauna, travel.targetPeriod, picks, deaths)
                              /\ wev' = [called EXCEPT
                                            !.out = <<[arrived |-> travel.targetPeriod,
                                                       spawned |-> SpawnedTypes(picks)]>>]
               /\ UNCHANGED <<timeModule, sound, transients, volcanoes, world2>>

TravelUpdate == TravelUpdateOver(TravelDeltas)

InitFauna ==
    /\ TimeIdle
    /\ WorldIdle

NextFauna ==
    \/ SpawnCreature
    \/ SpawnInBiome
    \/ SpawnRandomCreatures
    \/ ManagerUpdate
    \/ ClearAll
    \/ TravelTo
    \/ TravelUpdate

SpecFauna == InitFauna /\ [][NextFauna]_vars

\* C15: the CreatureManager never holds more than maxCreatures (50) creatures,
\* whatever spawnInBiome, spawnRandomCreatures, spawnCreature, update and
\* clearAll calls and time-travel arrivals have happened.
C15_AtMostMaxCreatures ==
    Length(fauna) <= 50

\* The creature types that creatureMapping gives for a period's animals.
PeriodTypes(periodKey) ==
    LET animals == TIME_PERIODS[periodKey].animals
    IN  {creatureMapping[animals[i]] : i \in MappedAnimals(animals)}

\* C17: when a time-travel transition completes, the creatures held before
\* are all gone and every creature spawned on arrival has a creature type
\* mapped from one of the arriving period's dominant animals.
C17_SpawnsOnlyPeriodTypes ==
    (wev.op = "travel.update" /\ wev.out # <<>>)
        => /\ wev.out[1].spawned \subseteq PeriodTypes(wev.out[1].arrived)
           /\ Length(fauna) <= FaunaCalls(TIME_PERIODS[wev.out[1].arrived].animals)
           /\ fauna.meshes = Length(fauna)

\* C18: after each CreatureManager.update no creature with health <= 0 is in
\* the creatures array, and the scene holds the meshes of the creatures in the
\* array and no mesh of a removed creature; so the creatures an extinction
\* event set to health 0 are gone after the next update.
C18_NoDeadAfterUpdate ==
    wev.op = "creatures.update"
        => /\ fauna.dead = 0
           /\ fauna.meshes = Length(fauna)

\* C18 witness: an update has removed creatures that an extinction event had
\* set to health 0, and has kept the living ones.
C18_Witness ==
    /\ wev.op = "creatures.update"
    /\ wev.out[1] > 0
    /\ fauna.dead = 0
    /\ fauna.alive > 0

\* ---------------------------------------------------------------- time travel

\* timeTravel.travelTo(periodKey)
TravelToPeriod ==
    \E periodKey \in DOMAIN TIME_PERIODS :
        /\ travel' = travelTo(travel, periodKey)
        /\ wev' = [NoWev EXCEPT !.op = "travel.travelTo",
                                !.args = <<periodKey>>]
        /\ UNCHANGED <<timeModule, sound, transients, volcanoes, world2, fauna>>

\* timeTravel.update(delta) at the steps of a render loop
TravelFrame == TravelUpdateOver(FrameDeltas)

InitTravel ==
    /\ TimeIdle
    /\ WorldIdle

NextTravel ==
    \/ TravelToPeriod
    \/ TravelFrame

SpecTravel == InitTravel /\ [][NextTravel]_vars

\* C21: once travelTo(target) is accepted, the update call with which the
\* accumulated delta reaches transitionDuration (5 s) completes the
\* transition: currentPeriod is the target, transitioning is false,
\* transitionProgress is 0 and the vortex is out of the scene.
C21_CompletesAtDuration ==
    (/\ wev.op = "travel.update"
     /\ wev.args[1] >= 2 * transitionDuration)
        => /\ ~travel.transitioning
           /\ travel.currentPeriod = wev.args[2]
           /\ travel.transitionProgress = DoubleZero
           /\ ~travel.vortex

\* ---------------------------------------------------------------- volcanoes

\* Seconds handed to update as delta.
VolcanoDeltas == {14, 28}

\* Math.random() as drawn by startEruption, in tenths: below 0.3, between 0.3
\* and 0.5, and above.
RandSamples == {1, 4, 9}

\* 60 + Math.random() * 180 as drawn for nextEruption, in seconds.
NextSamples == {70, 200}

\* Indices handed to triggerEruption.
IndexSamples == {-1, 0, 1}

\* The volcanoes that initializeVolcanoes built: none where the terrain is
\* under water, one otherwise.  Volcanoes do not read one another, so one
\* stands for each of the five.
VolcanoInputs == {<<>>} \cup {<<NewVolcano(next)>> : next \in NextSamples}

\* The volcanoes of vs that are active in new and were not in old, and the
\* other way round.
StartedIn(old, new) ==
    {i \in DOMAIN old : ~old[i].active /\ new[i].active}

EndedIn(old, new) ==
    {i \in DOMAIN old : old[i].active /\ ~new[i].active}

\* volcanicSystem.update(delta)
VolcanoUpdate ==
    \E delta \in VolcanoDeltas,
       rands \in [DOMAIN volcanoes -> RandSamples],
       nexts \in [DOMAIN volcanoes -> NextSamples],
       flashes \in [DOMAIN volcanoes -> BOOLEAN] :
        /\ transients' = volcanicLightning(transients, volcanoes, delta, flashes)
        /\ Cardinality(Live(transients', "volcanicLightning")) <= MaxBolts
        /\ volcanoes' = volcanicUpdate(volcanoes, delta, rands, nexts)
        /\ wev' = [op |-> "volcanic.update", args |-> <<delta>>,
                   out |-> <<[started |-> StartedIn(volcanoes, volcanoes'),
                              ended |-> EndedIn(volcanoes, volcanoes')]>>]
        /\ UNCHANGED <<timeModule, sound, world2, fauna, travel>>

\* volcanicSystem.triggerEruption(index)
TriggerEruption ==
    \E index \in IndexSamples, rand \in RandSamples :
        /\ volcanoes' = triggerEruption(volcanoes, index, rand)
        /\ wev' = [op |-> "volcanic.triggerEruption", args |-> <<index>>,
                   out |-> <<[started |-> StartedIn(volcanoes, volcanoes'),
                              ended |-> EndedIn(volcanoes, volcanoes')]>>]
        /\ UNCHANGED <<timeModule, sound, transients, world2, fauna, travel>>

InitVolcano ==
    /\ TimeIdle
    /\ terrain = NewTerrain
    /\ cycle = NewCycle
    /\ weather = NewWeather
    /\ fauna = NewManager
    /\ travel = NewTravel
    /\ volcanoes \in VolcanoInputs
    /\ transients = NoTransients
    /\ events = NewEvents
    /\ sound = NewSound
    /\ wev = NoWev

NextVolcano ==
    \/ VolcanoUpdate
    \/ TriggerEruption
    \/ TimeoutFires

SpecVolcano == InitVolcano /\ [][NextVolcano]_vars

\* update is written to be called with each frame's delta; the fairness
\* condition says that those calls keep coming.
SpecVolcanoFair == SpecVolcano /\ WF_vars(VolcanoUpdate)

\* C19: through Volcano.update an eruption starts only when the volcano is not
\* active, the eruptionTimer that update has advanced is >= nextEruption and
\* magmaPressure is > 0.8; triggerEruption(index) starts an eruption only of
\* the volcano at index when it is not active, and changes nothing of an
\* active volcano, of any other volcano, or when no volcano is at index.
C19_EruptionStartsOnlyWhenDue ==
    [][\A i \in DOMAIN volcanoes :
          /\ (~volcanoes[i].active /\ volcanoes'[i].active)
                => \/ /\ wev'.op = "volcanic.update"
                      /\ volcanoes[i].eruptionTimer + wev'.args[1]
                             >= volcanoes[i].nextEruption
                      /\ volcanoes'[i].magmaPressure > 80
                   \/ /\ wev'.op = "volcanic.triggerEruption"
                      /\ wev'.args[1] = i - 1
          /\ (/\ wev'.op = "volcanic.triggerEruption"
              /\ volcanoes[i].active \/ wev'.args[1] # i - 1)
                => volcanoes'[i] = volcanoes[i]]_vars

\* C19 witness: an update has started the eruption of a volcano that was due.
C19_Witness ==
    /\ wev.op = "volcanic.update"
    /\ 1 \in wev.out[1].started
    /\ volcanoes[1].active
    /\ volcanoes[1].eruptionTimer = 0

Active(i) == i \in DOMAIN volcanoes /\ volcanoes[i].active

\* C20: every eruption ends.  An update of an active volcano ends the
\* eruption exactly when the eruptionTimer it has advanced exceeds
\* 30 + 30 * eruptionIntensity seconds, a duration between 30 and 60 s, and
\* then active is false, eruptionType is dormant, the ash and lava particles
\* are hidden and eruptionTimer is 0; nothing else ends an eruption; and under
\* repeated updates an active volcano does become dormant.
C20_EveryEruptionEnds ==
    /\ Active(1) ~> ~Active(1)
    /\ [][\A i \in DOMAIN volcanoes :
             volcanoes[i].active
                => LET duration == 30 + volcanoes[i].eruptionIntensity * 3
                       advanced == volcanoes[i].eruptionTimer + wev'.args[1]
                   IN  /\ duration >= 30
                       /\ duration <= 60
                       /\ IF wev'.op # "volcanic.update"
                              THEN volcanoes'[i].active
                          ELSE IF advanced > duration
                              THEN /\ ~volcanoes'[i].active
                                   /\ volcanoes'[i].eruptionType = "dormant"
                                   /\ ~volcanoes'[i].ash
                                   /\ ~volcanoes'[i].lava
                                   /\ volcanoes'[i].eruptionTimer = 0
                          ELSE /\ volcanoes'[i].active
                               /\ volcanoes'[i].eruptionTimer = advanced]_vars

\* C20 witness: an update has just ended an eruption.
C20_Witness ==
    /\ wev.op = "volcanic.update"
    /\ 1 \in wev.out[1].ended
    /\ ~volcanoes[1].active
    /\ volcanoes[1].eruptionType = "dormant"

\* --------------------------------------------------- timer-removed objects

\* Earthquake magnitudes handed to trigger, the ends of the 4 to 8 that
\* triggerEarthquake draws; and the seconds handed to the event updates.
MagnitudeSamples == {4}

EventDeltas == {5}

\* The timer-removed objects that can be live within the bounds.
TransientObjects ==
    {[kind |-> k, id |-> i] :
        k \in TransientKinds \ {"groundCrack"}, i \in 1..MaxBolts}
    \cup {[kind |-> "groundCrack", id |-> i] : i \in 1..crackCount}

\* The lightning lights and impact flashes that are live.
Bolts(tr) == {o \in tr.scene \cup tr.timers : o.kind # "groundCrack"}

\* weather.createLightning(nearPosition)
CreateLightning ==
    /\ Cardinality(Bolts(transients)) < MaxBolts
    /\ transients' = createLightning(transients)
    /\ wev' = NoWev
    /\ UNCHANGED <<timeModule, sound, volcanoes, world2, fauna, travel>>

\* volcano.createVolcanicLightning() of a volcano of the system
CreateVolcanicLightning ==
    /\ volcanoes # <<>>
    /\ Cardinality(Bolts(transients)) < MaxBolts
    /\ transients' = createVolcanicLightning(transients)
    /\ wev' = NoWev
    /\ UNCHANGED <<timeModule, sound, volcanoes, world2, fauna, travel>>

\* volcanicSystem.clearAll(): every volcano is destroyed (its mesh, particle
\* systems and lava flows leave the scene) and the array is emptied.
VolcanicClearAll ==
    /\ volcanoes' = <<>>
    /\ wev' = NoWev
    /\ UNCHANGED <<timeModule, sound, transients, world2, fauna, travel>>

\* earthquakeSystem.trigger(epicenter, magnitude), while no crack of an
\* earlier earthquake is live.
QuakeTrigger ==
    \E magnitude \in MagnitudeSamples :
        /\ Live(transients, "groundCrack") = {}
        /\ events' = [events EXCEPT
                         !.earthquakeSystem = trigger(@, magnitude)]
        /\ transients' = createGroundCracks(transients)
        /\ wev' = NoWev
        /\ UNCHANGED <<timeModule, sound, volcanoes, terrain, cycle, weather, fauna,
                       travel>>

\* earthquakeSystem.update(delta)
QuakeUpdate ==
    \E delta \in EventDeltas :
        /\ events' = [events EXCEPT
                         !.earthquakeSystem = quakeUpdate(@, delta)]
        /\ wev' = NoWev
        /\ UNCHANGED <<timeModule, sound, volcanoes, transients, terrain, cycle,
                       weather, fauna, travel>>

\* meteorSystem.spawnMeteor(targetPosition, size)
SpawnMeteor ==
    /\ events.meteorSystem.meteors < MaxBolts
    /\ events' = [events EXCEPT !.meteorSystem = spawnMeteor(@)]
    /\ wev' = NoWev
    /\ UNCHANGED <<timeModule, sound, volcanoes, transients, terrain, cycle, weather,
                   fauna, travel>>

\* meteorSystem.update(delta); hits of the falling meteors reach the ground,
\* and createImpact adds a flash for each.
MeteorUpdate ==
    \E delta \in EventDeltas, hits \in 0..events.meteorSystem.meteors :
        /\ Cardinality(Bolts(transients)) + hits <= MaxBolts
        /\ events' = [events EXCEPT
                         !.meteorSystem = meteorUpdate(@, delta, hits)]
        /\ transients' = addWithTimeout(transients, "impactFlash", hits)
        /\ wev' = NoWev
        /\ UNCHANGED <<timeModule, sound, volcanoes, terrain, cycle, weather, fauna,
                       travel>>

InitTimers ==
    /\ TimeIdle
    /\ terrain = NewTerrain
    /\ cycle = NewCycle
    /\ weather = NewWeather
    /\ fauna = NewManager
    /\ travel = NewTravel
    /\ volcanoes \in VolcanoInputs
    /\ transients = NoTransients
    /\ events = NewEvents
    /\ sound = NewSound
    /\ wev = NoWev

NextTimers ==
    \/ CreateLightning
    \/ CreateVolcanicLightning
    \/ VolcanicClearAll
    \/ QuakeTrigger
    \/ QuakeUpdate
    \/ SpawnMeteor
    \/ MeteorUpdate
    \/ TimeoutFires

SpecTimers == InitTimers /\ [][NextTimers]_vars

\* The browser runs the callback of every timer once its delay is over.
SpecTimersFair ==
    SpecTimers /\ \A obj \in TransientObjects : WF_vars(TimeoutOf(obj))

\* C22: every object scheduled for timer removal (storm lightning, volcanic
\* lightning, impact flash, ground crack) in the scene is eventually out of
\* the scene, whatever the order of timer callbacks and update calls and
\* whether or not its system has ended or been cleared; an object leaves the
\* scene only in the step that runs its own timer's callback, and that step
\* takes nothing else out of the scene and runs no other timer.
C22_RemovedByOwnTimer ==
    /\ \A obj \in TransientObjects :
           (obj \in transients.scene) ~> (obj \notin transients.scene)
    /\ [][\A obj \in transients.scene :
             obj \notin transients'.scene
                => /\ obj \in transients.timers
                   /\ transients'.scene = transients.scene \ {obj}
                   /\ transients'.timers = transients.timers \ {obj}]_vars

\* C22 witness: the earthquake is over and the volcanoes are cleared, and
\* cracks and a lightning light still wait for their timers while other
\* cracks have been removed by theirs.
C22_Witness ==
    /\ ~events.earthquakeSystem.active
    /\ events.earthquakeSystem.duration > 0
    /\ volcanoes = <<>>
    /\ [kind |-> "volcanicLightning", id |-> 1] \in transients.scene
    /\ [kind |-> "groundCrack", id |-> crackCount] \in transients.scene
    /\ [kind |-> "groundCrack", id |-> 1] \notin transients.scene

\* ------------------------------------------------------------ the sound system

\* Volumes handed to setVolume: below 0, inside [0, 1], above 1 (tenths).
VolumeSamples == {-5, 0, 7, 15}

everythingButSound ==
    <<timeModule, terrain, cycle, weather, fauna, travel, volcanoes,
      transients, events>>

\* sound.initialize(), the browser creating the audio context or not.
SoundInitialize ==
    \E available \in BOOLEAN :
        /\ sound' = initialize(sound, available)
        /\ wev' = [op |-> "sound.initialize", args |-> <<available>>,
                   out |-> <<>>]
        /\ UNCHANGED everythingButSound

\* sound.setEnabled(enabled).
SetEnabled ==
    \E enabled \in BOOLEAN, available \in BOOLEAN :
        /\ sound' = setEnabled(sound, enabled, available)
        /\ wev' = [op |-> "sound.setEnabled", args |-> <<enabled, available>>,
                   out |-> <<>>]
        /\ UNCHANGED everythingButSound

\* sound.setVolume(volume).
SetVolume ==
    \E volume \in VolumeSamples :
        /\ sound' = setVolume(sound, volume)
        /\ wev' = NoWev
        /\ UNCHANGED everythingButSound

\* A call of one of the create...Sound methods.
CreateSound ==
    \E method \in SoundMethods :
        LET r == createSound(sound, method)
        IN  /\ r.sound.started <= MaxSounds
            /\ sound' = r.sound
            /\ wev' = [op |-> method, args |-> <<>>, out |-> r.out]
            /\ UNCHANGED everythingButSound

\* The shockwave timer of a meteor impact sound runs.
ShockwaveTimer ==
    /\ sound.shockwaves > 0
    /\ LET r == shockwave(sound)
       IN  /\ r.sound.started <= MaxSounds
           /\ sound' = r.sound
           /\ wev' = [op |-> "createEarthquake", args |-> <<>>, out |-> r.out]
    /\ UNCHANGED everythingButSound

InitSound ==
    /\ TimeIdle
    /\ WorldIdle

NextSound ==
    \/ SoundInitialize
    \/ SetEnabled
    \/ SetVolume
    \/ CreateSound
    \/ ShockwaveTimer

SpecSound == InitSound /\ [][NextSound]_vars

\* C23: enabled = true implies that an audio context exists, and without an
\* audio context every create...Sound method returns without effect instead of
\* throwing, also after setEnabled(true) has been called.
C23_EnabledImpliesContext ==
    /\ sound.enabled => sound.audioContext
    /\ (wev.op \in SoundMethods /\ ~sound.audioContext)
           => wev.out = "returned"

=============================================================================
